---- MODULE Spec2Model ----
(***************************************************************************)
(* Model of the embedding-driven similarity engine of the MICCAI papers    *)
(* backend: DataLoader (backend/src/services/data_loader.py),              *)
(* SimilarityService (backend/src/services/similarity.py) and TSNEService  *)
(* (backend/src/services/tsne_service.py), and of the counters of          *)
(* MICCAIParallelScraper (backend/src/lib/miccai_parallel_scraper.py).     *)
(*                                                                         *)
(* Scores are fixed-point numbers in units of 1/ScoreScale (0.35 is 35).   *)
(* Embeddings are integer vectors of integer Euclidean norm, so that the   *)
(* cosine of two stored vectors is an exact multiple of 1/ScoreScale.      *)
(***************************************************************************)
EXTENDS Integers, Sequences, FiniteSets, TLC

VARIABLES
    paperIndex,       \* papers_by_id/index.json: the ids of "papers", in file order
    embFile,          \* embeddings_by_id/<id>_embedding.npz: id -> vector, NoVec if no file
    paperFile,        \* papers_by_id/<id>.json: the ids that have a paper record
    subjectAreas,     \* Paper.subject_areas of each paper record
    papersCache,      \* DataLoader._papers_cache (the ids held)
    embeddingsCache,  \* DataLoader._embeddings_cache: id -> vector
    indexLoaded,      \* DataLoader._paper_index is not None
    allEmbeddings,    \* SimilarityService._all_embeddings: NotLoaded, or the dict's keys in order
    response,         \* the value the last call returned, Idle between calls
    cacheFiles,       \* data/cache/*.json: file name -> [state, data]
    tsneMem,          \* TSNEService._tsne_coordinates_cache of each worker process
    pc,               \* where each worker is in the request it serves
    req,              \* the request each worker serves
    coords,           \* each worker's local `coordinates` / `global_coordinates`
    ret,              \* what each worker's call returned
    computed,         \* the cache keys whose compute function the worker's call invoked
    atStart,          \* the entry stored under the call's key when the call began
    calls,            \* the requests accepted so far
    logged,           \* the cache errors each worker's call passed to logger.error
    lastGraph,        \* the graph response sent last, Idle before the first
    max_workers,      \* MICCAIParallelScraper.max_workers
    lock,             \* MICCAIParallelScraper.lock: the task holding it, Free if none
    processed_count,  \* MICCAIParallelScraper.processed_count
    success_count,    \* MICCAIParallelScraper.success_count
    error_count,      \* MICCAIParallelScraper.error_count
    papers_metadata,  \* len(papers_metadata) in scrape_all_papers_parallel
    task,             \* where each submitted process_paper_parallel call is
    loaded,           \* the counter value each call read for the += it is executing
    papers,           \* the local list `papers`, as the tasks whose Paper it holds
    scrape            \* where the thread in scrape_all_papers_parallel is

simVars == <<paperIndex, embFile, paperFile, subjectAreas, papersCache,
             embeddingsCache, indexLoaded, allEmbeddings, response>>

cacheVars == <<cacheFiles, tsneMem, pc, req, coords, ret, computed, atStart, calls,
               logged>>

observerVars == <<lastGraph>>

scraperVars == <<max_workers, lock, processed_count, success_count, error_count,
                 papers_metadata, task, loaded, papers, scrape>>

vars == <<simVars, cacheVars, observerVars, scraperVars>>

---------------------------------------------------------------------------
(* Values *)

PaperIds == {"A", "B", "C", "D"}
Areas == {"seg", "reg"}

\* Python's order of the ids (str.__lt__), as ranks.
IdRank(id) == CASE id = "A" -> 1 [] id = "B" -> 2 [] id = "C" -> 3 [] id = "D" -> 4

NoVec == <<>>
NotLoaded == [loaded |-> FALSE, keys |-> <<>>]
Idle == [op |-> "idle"]

\* Fixed-point resolution of a float score: float(similarity) is score / ScoreScale.
ScoreScale == 100
\* The largest Euclidean norm of a stored vector.
MaxNorm == 20

\* The 4-vector corpus of the concrete scenarios: all of norm 10, with
\* cos(A,B)=0.9 cos(A,C)=0.5 cos(A,D)=0.1 cos(B,C)=0.4 cos(B,D)=0.2 cos(C,D)=0.3.
vA == <<10, 0, 0, 0, 0, 0>>
vB == <<9, 3, 3, 1, 0, 0>>
vC == <<5, 5, -5, -5, 0, 0>>
vD == <<1, 4, 0, -1, 9, 1>>
\* A vector parallel to vA of another norm, the opposite of vA, and the zero vector.
vA2 == <<20, 0, 0, 0, 0, 0>>
vNegA == <<-10, 0, 0, 0, 0, 0>>
vZero == <<0, 0, 0, 0, 0, 0>>

ScenarioCorpus == [id \in PaperIds |->
    CASE id = "A" -> vA [] id = "B" -> vB [] id = "C" -> vC [] id = "D" -> vD]
\* B and C hold the same vector (ties, and a pair of cosine 1.0); D has no embedding file.
TiesCorpus == [id \in PaperIds |->
    CASE id = "A" -> vA [] id = "B" -> vB [] id = "C" -> vB [] id = "D" -> NoVec]
\* Parallel, opposite and zero vectors.
DegenerateCorpus == [id \in PaperIds |->
    CASE id = "A" -> vA [] id = "B" -> vA2 [] id = "C" -> vNegA [] id = "D" -> vZero]

Corpora == {ScenarioCorpus, TiesCorpus, DegenerateCorpus}

\* Paper.subject_areas of the four records.
RecordAreas == [id \in PaperIds |->
    CASE id = "A" -> {"seg"} [] id = "B" -> {"seg", "reg"} [] id = "C" -> {"reg"}
      [] id = "D" -> {}]

---------------------------------------------------------------------------
(* Sequences *)

Min(a, b) == IF a < b THEN a ELSE b

Range(s) == {s[i] : i \in DOMAIN s}

\* The injective sequences over S: the orders in which a file can list distinct ids.
InjSeqsOfLen(S, n) == {s \in [1..n -> S] : \A i, j \in 1..n : i # j => s[i] # s[j]}
InjSeqs(S) == UNION {InjSeqsOfLen(S, n) : n \in 0..Cardinality(S)}

\* Python's s[:n] for n >= 0.
Take(s, n) == SubSeq(s, 1, Min(n, Len(s)))

\* [f(x) for x in s if p(x)]
RECURSIVE SelectIn(_, _)
SelectIn(s, S) ==
    IF s = <<>> THEN <<>>
    ELSE IF Head(s) \in S THEN <<Head(s)>> \o SelectIn(Tail(s), S)
    ELSE SelectIn(Tail(s), S)

\* sorted(s, key=lambda x: x[k], reverse=True): Python's sort is stable, and with
\* reverse=True elements of equal key keep their original order.  Insertion of x
\* after every element whose key is >= x's.
\* An unstable insertion: x goes before the elements of equal key.
RECURSIVE InsertDescUnstable(_, _, _)
InsertDescUnstable(sorted, x, k) ==
    IF sorted = <<>> THEN <<x>>
    ELSE IF Head(sorted)[k] > x[k]
         THEN <<Head(sorted)>> \o InsertDescUnstable(Tail(sorted), x, k)
         ELSE <<x>> \o sorted

RECURSIVE InsertDesc(_, _, _)
InsertDesc(sorted, x, k) ==
    IF sorted = <<>> THEN <<x>>
    ELSE IF Head(sorted)[k] >= x[k]
         THEN <<Head(sorted)>> \o InsertDesc(Tail(sorted), x, k)
         ELSE <<x>> \o sorted

RECURSIVE SortDescInto(_, _, _)
SortDescInto(sorted, rest, k) ==
    IF rest = <<>> THEN sorted
    ELSE SortDescInto(InsertDesc(sorted, Head(rest), k), Tail(rest), k)

SortDesc(s, k) == SortDescInto(<<>>, s, k)

---------------------------------------------------------------------------
(* sklearn.metrics.pairwise.cosine_similarity *)

RECURSIVE DotFrom(_, _, _)
DotFrom(a, b, i) == IF i > Len(a) THEN 0 ELSE a[i] * b[i] + DotFrom(a, b, i + 1)

Dot(a, b) == DotFrom(a, b, 1)

\* The Euclidean norm (every stored vector has an integer norm <= MaxNorm).
IntSqrt(n) == CHOOSE r \in 0..MaxNorm : r * r = n
Norm(v) == IntSqrt(Dot(v, v))

\* dot(a,b) / (|a| |b|) in units of 1/ScoreScale; rows of zero norm are left as
\* zeros by the normalisation, so their cosine with anything is 0.
CosineSimilarity(a, b) ==
    IF Norm(a) = 0 \/ Norm(b) = 0 THEN 0
    ELSE (Dot(a, b) * ScoreScale) \div (Norm(a) * Norm(b))

---------------------------------------------------------------------------
(* DataLoader *)

\* A lookup that answers a zero vector where there is no file.
GetEmbeddingByIdZeroFill(cache, id) ==
    IF id \in DOMAIN cache THEN cache[id]
    ELSE IF embFile[id] = NoVec THEN vZero ELSE embFile[id]

\* A lookup that goes to the file every time.
GetEmbeddingByIdUncached(cache, id) == embFile[id]

\* get_embedding_by_id: the cached vector, else the file's, else None (NoVec).
GetEmbeddingById(cache, id) ==
    IF id \in DOMAIN cache THEN cache[id] ELSE embFile[id]

\* _embeddings_cache after get_embedding_by_id(id).
CacheAfterGet(cache, id) ==
    IF id \in DOMAIN cache \/ embFile[id] = NoVec THEN cache
    ELSE [x \in DOMAIN cache \cup {id} |-> IF x \in DOMAIN cache THEN cache[x] ELSE embFile[x]]

\* get_all_embeddings: the keys of the returned dict, in the index's order.
GetAllEmbeddings(cache) ==
    SelectIn(paperIndex, {id \in Range(paperIndex) : GetEmbeddingById(cache, id) # NoVec})

\* _embeddings_cache after get_all_embeddings().
CacheAfterGetAll(cache) ==
    LET new == {id \in Range(paperIndex) : id \notin DOMAIN cache /\ embFile[id] # NoVec}
    IN  [x \in DOMAIN cache \cup new |-> IF x \in DOMAIN cache THEN cache[x] ELSE embFile[x]]

\* get_paper_by_id(id) is not None.  The record is cached on the first read.
HasPaper(id) == id \in papersCache \/ id \in paperFile

\* SimilarityService._get_embeddings: the dict's keys and the loader's cache after it.
GetEmbeddingsKeys(cache) ==
    IF allEmbeddings.loaded THEN allEmbeddings.keys ELSE GetAllEmbeddings(cache)

CacheAfterGetEmbeddings(cache) ==
    IF allEmbeddings.loaded THEN cache ELSE CacheAfterGetAll(cache)

---------------------------------------------------------------------------
(* SimilarityService.find_similar_papers *)

\* The loop without its `if other_id == paper_id: continue`.
SimilaritiesWithSelf(target, keys, cache, paper_id) ==
    [i \in 1..Len(keys) |->
        [id |-> keys[i], score |-> CosineSimilarity(target, cache[keys[i]])]]

\* (other_id, float(similarity)) for every other id of all_embeddings, in dict order.
Similarities(target, keys, cache, paper_id) ==
    LET others == SelectIn(keys, Range(keys) \ {paper_id})
    IN  [i \in 1..Len(others) |->
            [id |-> others[i], score |-> CosineSimilarity(target, cache[others[i]])]]

\* similarities.sort(key=score, reverse=True); similarities[:limit]
RankedSimilar(target, keys, cache, paper_id, limit) ==
    Take(SortDesc(Similarities(target, keys, cache, paper_id), "score"), limit)

\* The entries of `top` whose paper record exists.
RECURSIVE WithPaper(_)
WithPaper(top) ==
    IF top = <<>> THEN <<>>
    ELSE IF HasPaper(Head(top).id) THEN <<Head(top)>> \o WithPaper(Tail(top))
    ELSE WithPaper(Tail(top))

\* The candidates without a paper record dropped before the cut to `limit`.
FindSimilarValueFilterFirst(target, keys, cache2, paper_id, limit) ==
    IF target = NoVec THEN <<>>
    ELSE Take(WithPaper(SortDesc(Similarities(target, keys, cache2, paper_id), "score")),
              limit)

\* What find_similar_papers returns with the loader's cache at `cache1` after the
\* target's lookup, the dict's keys `keys` and the cache `cache2` behind the dict.
FindSimilarValue(target, keys, cache2, paper_id, limit) ==
    IF target = NoVec THEN <<>>
    ELSE WithPaper(RankedSimilar(target, keys, cache2, paper_id, limit))

FindSimilarPapers(paper_id, limit) ==
    /\ response = Idle
    /\ \E target \in {GetEmbeddingById(embeddingsCache, paper_id)},
          cache1 \in {CacheAfterGet(embeddingsCache, paper_id)} :
         IF target = NoVec
         THEN /\ response' = [op |-> "similar", paper_id |-> paper_id, limit |-> limit,
                              value |-> <<>>]
              /\ embeddingsCache' = cache1
              /\ UNCHANGED <<allEmbeddings, indexLoaded, papersCache>>
         ELSE \E keys \in {GetEmbeddingsKeys(cache1)},
                 cache2 \in {CacheAfterGetEmbeddings(cache1)} :
                \E top \in {RankedSimilar(target, keys, cache2, paper_id, limit)} :
                   /\ response' = [op |-> "similar", paper_id |-> paper_id,
                                   limit |-> limit,
                                   value |-> FindSimilarValue(target, keys, cache2,
                                                              paper_id, limit)]
                   /\ embeddingsCache' = cache2
                   /\ allEmbeddings' = [loaded |-> TRUE, keys |-> keys]
                   /\ indexLoaded' = TRUE
                   /\ papersCache' = papersCache \cup
                          {top[i].id : i \in {j \in DOMAIN top : top[j].id \in paperFile}}
    /\ UNCHANGED <<observerVars, scraperVars, cacheVars, paperIndex, embFile, paperFile, subjectAreas>>

---------------------------------------------------------------------------
(* sklearn.cluster.KMeans *)

\* The largest matrix whose labellings are all enumerated.
MaxEnumeratedRows == 4

\* Labellings of a larger matrix: the rows dealt out to the clusters in turn from
\* some offset, and the rows cut into k runs of equal length.
SampleLabellings(n, k) ==
    {[i \in 1..n |-> (i + s) % k] : s \in 0..(k - 1)}
        \cup {[i \in 1..n |-> ((i - 1) * k) \div n]}

\* KMeans(n_clusters=k, random_state=42).fit_predict on n rows: one label in
\* 0..k-1 per row.  Which labelling the library settles on is left open.
KMeansFitPredict(n, k) ==
    IF n <= MaxEnumeratedRows THEN [1..n -> 0..(k - 1)] ELSE SampleLabellings(n, k)

\* KMeans rejects n_clusters < 1 (InvalidParameterError) and fewer rows than
\* clusters (ValueError: n_samples should be >= n_clusters).
KMeansAccepts(n, k) == k >= 1 /\ n >= k

---------------------------------------------------------------------------
(* SimilarityService.generate_graph_data *)

\* A filter that keeps every id.
FilterKeepsAll(paper_ids, subject_areas) == paper_ids

\* The ids kept by the subject-area filter (an empty or absent list keeps all).
FilterBySubjectAreas(paper_ids, subject_areas) ==
    IF subject_areas = {} THEN paper_ids
    ELSE SelectIn(paper_ids,
                  {id \in PaperIds : HasPaper(id) /\ subjectAreas[id] \cap subject_areas # {}})

\* random.sample(paper_ids, sample_size): every selection without replacement, in
\* every order.  sample_size 0 stands for None.
SampleChoices(paper_ids, sample_size) ==
    IF sample_size # 0 /\ sample_size < Len(paper_ids)
    THEN InjSeqsOfLen(Range(paper_ids), sample_size)
    ELSE {paper_ids}

\* The nodes: one per selected id whose paper record exists.
GraphNodes(paper_ids) ==
    LET with == SelectIn(paper_ids, {id \in Range(paper_ids) : HasPaper(id)})
    IN  [i \in 1..Len(with) |-> [id |-> with[i], cluster |-> -1]]

\* The (i, j) of the two nested enumerate loops, row by row.
IndexPairs(n) == [k \in 1..(n * n) |-> <<((k - 1) \div n) + 1, ((k - 1) % n) + 1>>]

\* The test with both orders of a pair let through / with a non-strict threshold.
EdgeTestBothOrders(i, j, sim, threshold) == i # j /\ sim > threshold
EdgeTestNonStrict(i, j, sim, threshold) == i < j /\ sim >= threshold

\* The test letting through the lower triangle instead of the upper.
EdgeTestLowerTriangle(i, j, sim, threshold) == i > j /\ sim > threshold

\* if i < j and similarity_matrix[i][j] > similarity_threshold
EdgeTest(i, j, sim, threshold) == i < j /\ sim > threshold

\* The edges the two loops append, in loop order.
EdgesOver(pairs, paper_ids, cache, threshold) ==
    LET Sim(pr) == CosineSimilarity(cache[paper_ids[pr[1]]], cache[paper_ids[pr[2]]])
        Kept(pr) == EdgeTest(pr[1], pr[2], Sim(pr), threshold)
        kept == SelectSeq(pairs, Kept)
    IN  [k \in DOMAIN kept |->
            [source |-> paper_ids[kept[k][1]], target |-> paper_ids[kept[k][2]],
             similarity |-> Sim(kept[k])]]

\* The cap applied before the sort.
GraphEdgesCapFirst(paper_ids, cache, threshold, max_edges) ==
    SortDesc(Take(EdgesOver(IndexPairs(Len(paper_ids)), paper_ids, cache, threshold),
                  max_edges),
             "similarity")

\* edges.sort(key=similarity, reverse=True); edges[:max_edges]
GraphEdges(paper_ids, cache, threshold, max_edges) ==
    Take(SortDesc(EdgesOver(IndexPairs(Len(paper_ids)), paper_ids, cache, threshold),
                  "similarity"),
         max_edges)

\* min(10, len(paper_ids) // 20)
ClusterCap == 10
PapersPerCluster == 20
AdaptiveClusterCount(n) == Min(ClusterCap, n \div PapersPerCluster)

\* for i, node in enumerate(nodes): node.cluster = int(cluster_labels[i])
LabelNodes(nodes, labels) ==
    [i \in DOMAIN nodes |-> [nodes[i] EXCEPT !.cluster = labels[i]]]

\* clusters[str(c)]["papers"]: the ids whose row carries label c, in row order.
ClusterPapers(paper_ids, labels, c) ==
    SelectIn(paper_ids, {paper_ids[j] : j \in {x \in DOMAIN paper_ids : labels[x] = c}})

GraphClusters(paper_ids, labels, n_clusters) ==
    [c \in 0..(n_clusters - 1) |-> ClusterPapers(paper_ids, labels, c)]

\* The GraphData returned for the selected ids and the labels KMeans gave; an empty
\* selection makes cosine_similarity raise (a 1-D array), which the caller sees.
GraphValue(paper_ids, cache, threshold, max_edges, labels) ==
    LET n_clusters == AdaptiveClusterCount(Len(paper_ids))
        nodes == GraphNodes(paper_ids)
    IN  IF paper_ids = <<>> THEN [error |-> "ValueError"]
        ELSE [error |-> "none",
              nodes |-> IF n_clusters > 1 THEN LabelNodes(nodes, labels) ELSE nodes,
              edges |-> GraphEdges(paper_ids, cache, threshold, max_edges),
              clusters |-> IF n_clusters > 1
                           THEN GraphClusters(paper_ids, labels, n_clusters)
                           ELSE <<>>]

GenerateGraphData(threshold, max_edges, sample_size, subject_areas) ==
    /\ response = Idle
    /\ \E keys \in {GetEmbeddingsKeys(embeddingsCache)},
          cache \in {CacheAfterGetEmbeddings(embeddingsCache)} :
      \E filtered \in {FilterBySubjectAreas(keys, subject_areas)} :
        /\ \E paper_ids \in SampleChoices(filtered, sample_size) :
             LET n_clusters == AdaptiveClusterCount(Len(paper_ids))
             IN  \E labels \in IF n_clusters > 1
                               THEN KMeansFitPredict(Len(paper_ids), n_clusters)
                               ELSE {<<>>} :
                   /\ response' = [op |-> "graph", threshold |-> threshold,
                                   max_edges |-> max_edges, sample_size |-> sample_size,
                                   subject_areas |-> subject_areas,
                                   paper_ids |-> paper_ids,
                                   value |-> GraphValue(paper_ids, cache, threshold,
                                                        max_edges, labels)]
                   /\ papersCache' = papersCache \cup
                        {id \in paperFile :
                            \/ subject_areas # {} /\ id \in Range(keys)
                            \/ id \in Range(paper_ids)}
        /\ embeddingsCache' = cache
        /\ allEmbeddings' = [loaded |-> TRUE, keys |-> keys]
        /\ indexLoaded' = TRUE
        /\ UNCHANGED <<observerVars, scraperVars, cacheVars, paperIndex, embFile, paperFile, subjectAreas>>

---------------------------------------------------------------------------
(* SimilarityService.get_paper_clusters *)

\* The list assigned instead of appended to: the last id of label c only.
MembersOfOverwritten(paper_ids, labels, c) ==
    LET all == SelectIn(paper_ids,
                        {paper_ids[j] : j \in {x \in DOMAIN paper_ids : labels[x] = c}})
    IN  IF all = <<>> THEN <<>> ELSE <<all[Len(all)]>>

\* The list clusters[str(c)] after the loop: every id of label c appended, in
\* dict order.
MembersOf(paper_ids, labels, c) ==
    SelectIn(paper_ids, {paper_ids[j] : j \in {x \in DOMAIN paper_ids : labels[x] = c}})

\* clusters: only the labels that occur become keys.
ClustersOf(paper_ids, labels) ==
    [c \in {labels[i] : i \in DOMAIN labels} |-> MembersOf(paper_ids, labels, c)]

\* The requested count passed on unchanged.
EffectiveClustersUncapped(n, n_clusters) == n_clusters

\* if len(paper_ids) < n_clusters: n_clusters = len(paper_ids)
EffectiveClusters(n, n_clusters) == IF n < n_clusters THEN n ELSE n_clusters

GetPaperClusters(n_clusters) ==
    /\ response = Idle
    /\ \E keys \in {GetEmbeddingsKeys(embeddingsCache)},
          cache \in {CacheAfterGetEmbeddings(embeddingsCache)} :
      \E k \in {EffectiveClusters(Len(keys), n_clusters)} :
        /\ \/ /\ Len(keys) = 0
              /\ response' = [op |-> "clusters", n_clusters |-> n_clusters,
                              error |-> "none", value |-> <<>>]
           \/ /\ Len(keys) # 0
              /\ ~KMeansAccepts(Len(keys), k)
              /\ response' = [op |-> "clusters", n_clusters |-> n_clusters,
                              error |-> "KMeansError", value |-> <<>>]
           \/ /\ Len(keys) # 0
              /\ KMeansAccepts(Len(keys), k)
              /\ \E labels \in KMeansFitPredict(Len(keys), k) :
                   response' = [op |-> "clusters", n_clusters |-> n_clusters,
                                error |-> "none", value |-> ClustersOf(keys, labels)]
        /\ embeddingsCache' = cache
        /\ allEmbeddings' = [loaded |-> TRUE, keys |-> keys]
        /\ indexLoaded' = TRUE
        /\ UNCHANGED <<observerVars, scraperVars, cacheVars, paperIndex, embFile, paperFile, subjectAreas, papersCache>>

---------------------------------------------------------------------------
(* MICCAIParallelScraper.__init__ *)

MaxPoolWorkers == 2
MaxPapers == 3

Free == 0
NoMetadata == -1
Tasks == 1..MaxPapers

\* The default of __init__'s max_workers.
DefaultMaxWorkers == 8

\* A scraper as __init__ leaves it, before scrape_all_papers_parallel is called.
MICCAIParallelScraper(workers) ==
    /\ max_workers = workers
    /\ lock = Free
    /\ processed_count = 0
    /\ success_count = 0
    /\ error_count = 0
    /\ papers_metadata = NoMetadata
    /\ task = [t \in Tasks |-> [at |-> "unsubmitted", built |-> FALSE]]
    /\ loaded = [t \in Tasks |-> 0]
    /\ papers = <<>>
    /\ scrape = "start"

\* The scraper that main() builds when no --workers option is given.
ScraperVarsInit == MICCAIParallelScraper(DefaultMaxWorkers)

---------------------------------------------------------------------------
(* TSNEService: the result cache *)

\* Bounds of the cache model: worker processes and requests accepted.
NumWorkers == 2
MaxCalls == 2

\* The top_k values requested, and the distinct outcomes of the unseeded
\* np.random draws of a fallback.
TopKs == {1, 2}
Draws == {1, 2}

Workers == 1..NumWorkers
CachePapers == {"A", "B"}

NoData == [kind |-> "none"]
Raised == [kind |-> "raised"]
AbsentFile == [state |-> "absent", data |-> NoData]
\* A file opened with 'w' and not (or not wholly) written: json.load fails on it.
PartialFile == [state |-> "partial", data |-> NoData]

\* tsne_coordinates.json and f"network_{paper_id}_{top_k}.json".  top_k is an int
\* and prints without "_", so the name determines (paper_id, top_k).
TsneFileName == <<"tsne_coordinates">>
NetworkFileName(paper_id, top_k) == <<"network", paper_id, top_k>>
FileNames == {TsneFileName} \cup
             {NetworkFileName(p, k) : p \in CachePapers, k \in TopKs}

CacheVarsInit ==
    /\ cacheFiles = [f \in FileNames |-> AbsentFile]
    /\ tsneMem = [w \in Workers |-> NoData]
    /\ pc = [w \in Workers |-> "idle"]
    /\ req = [w \in Workers |-> [op |-> "none"]]
    /\ coords = [w \in Workers |-> NoData]
    /\ ret = [w \in Workers |-> NoData]
    /\ computed = [w \in Workers |-> {}]
    /\ atStart = [w \in Workers |-> NoData]
    /\ calls = 0
    /\ logged = [w \in Workers |-> {}]

\* A cache file that never seems to be there.
FileNeverExists(file) == FALSE

\* cache_file.exists()
FileExists(file) == file.state # "absent"

\* json.load(f) succeeds: the file holds one whole dump.
JsonLoads(file) == file.state = "complete"

\* A dump that leaves no entry for a fallback result.
JsonDumpDropsFallback(data) ==
    IF data.kind \in {"fallback", "fallback_network"}
    THEN [state |-> "absent", data |-> [kind |-> "none"]]
    ELSE [state |-> "complete", data |-> data]

\* json.dump(data, f) and the close of f.  str, float, list and str-keyed dict
\* values are read back equal by json.load.
JsonDump(data) == [state |-> "complete", data |-> data]

\* get_all_papers(): the indexed ids that have a paper record.
AllPapers == SelectIn(paperIndex, paperFile)

\* TSNE(perplexity=min(30, n - 1)).fit_transform on n rows: a perplexity of 0 is
\* rejected, so one row raises.
TSNEFits(n) == n >= 2

\* _generate_fallback_coordinates: one random point per paper.
GenerateFallbackCoordinates(draw) ==
    [kind |-> "fallback", ids |-> AllPapers,
     rnd |-> IF AllPapers = <<>> THEN 0 ELSE draw]

\* _generate_tsne_coordinates: the t-SNE points (random_state=42) of the papers
\* that have an embedding, or the fallback.
GenerateTsneCoordinates(draw) ==
    LET paper_ids == SelectIn(AllPapers, {id \in PaperIds : embFile[id] # NoVec})
    IN  IF paper_ids = <<>> \/ ~TSNEFits(Len(paper_ids))
        THEN GenerateFallbackCoordinates(draw)
        ELSE [kind |-> "tsne", ids |-> paper_ids, rnd |-> 0]

\* find_similar_papers as _generate_similarity_network_data calls it.
SimilarPapersOf(paper_id, top_k) ==
    FindSimilarValue(embFile[paper_id], GetAllEmbeddings(<<>>), embFile, paper_id, top_k)

\* _generate_fallback_network_data: the target at (0, 0), a random point per
\* similar paper.
GenerateFallbackNetworkData(paper_id, similar, draw) ==
    [kind |-> "fallback_network", target |-> paper_id, similar |-> similar,
     rnd |-> IF similar = <<>> THEN 0 ELSE draw]

\* _generate_similarity_network_data once the target paper is found and the
\* global coordinates are at hand.
GenerateNetworkData(paper_id, top_k, global, draw) ==
    LET similar == SimilarPapersOf(paper_id, top_k)
        subset  == <<paper_id>> \o [i \in DOMAIN similar |-> similar[i].id]
        found   == SelectIn(subset, Range(global.ids))
    IN  IF found = <<>>
        THEN GenerateFallbackNetworkData(paper_id, similar, draw)
        ELSE [kind |-> "network", target |-> paper_id, similar |-> similar,
              tsne |-> [ids |-> found, kind |-> global.kind, rnd |-> global.rnd]]

\* logger.error(f"Error loading cached ...: {e}") and
\* logger.error(f"Error saving ... to cache: {e}") in a call of worker w.
LoadError(name) == <<"load", name>>
SaveError(name) == <<"save", name>>
LogError(w, error) == [logged EXCEPT ![w] = @ \cup {error}]

\* Worker v holds file name open for writing.
Writes(v, name) ==
    \/ pc[v] = "t_write" /\ name = TsneFileName
    \/ pc[v] = "n_write" /\ name = req[v].file

\* json.dump of worker w into file name: when it raises, the file is left
\* partial; a partial file without an exception needs a second writer.
DumpRaised(w, name, file, raised) ==
    /\ raised => file = PartialFile
    /\ (file = PartialFile /\ ~raised) => \E v \in Workers \ {w} : Writes(v, name)

\* The entry a call of worker w for file name would be served from.
StoredEntry(w, name) ==
    IF name = TsneFileName /\ tsneMem[w] # NoData THEN tsneMem[w]
    ELSE IF JsonLoads(cacheFiles[name]) THEN cacheFiles[name].data
    ELSE NoData

\* A request starts only when the worker is idle; with `serial` no two requests
\* overlap at all.
CanStart(w, serial) ==
    /\ pc[w] = "idle"
    /\ calls < MaxCalls
    /\ serial => \A v \in Workers : pc[v] = "idle"

StartTsne(w, serial) ==
    /\ CanStart(w, serial)
    /\ pc' = [pc EXCEPT ![w] = "t_check"]
    /\ req' = [req EXCEPT ![w] = [op |-> "tsne", file |-> TsneFileName]]
    /\ atStart' = [atStart EXCEPT ![w] = StoredEntry(w, TsneFileName)]
    /\ computed' = [computed EXCEPT ![w] = {}]
    /\ calls' = calls + 1
    /\ UNCHANGED <<observerVars, scraperVars, simVars, cacheFiles, tsneMem, coords, ret, logged>>

StartNetwork(w, serial, paper_id, top_k) ==
    /\ CanStart(w, serial)
    /\ pc' = [pc EXCEPT ![w] = "n_check"]
    /\ req' = [req EXCEPT ![w] = [op |-> "network", paper_id |-> paper_id,
                                  top_k |-> top_k,
                                  file |-> NetworkFileName(paper_id, top_k)]]
    /\ atStart' = [atStart EXCEPT ![w] = StoredEntry(w, NetworkFileName(paper_id, top_k))]
    /\ computed' = [computed EXCEPT ![w] = {}]
    /\ calls' = calls + 1
    /\ UNCHANGED <<observerVars, scraperVars, simVars, cacheFiles, tsneMem, coords, ret, logged>>

\* get_tsne_coordinates returns v: to the caller, or into
\* _generate_similarity_network_data.
TsneReturns(w, v) ==
    IF req[w].op = "tsne"
    THEN /\ pc' = [pc EXCEPT ![w] = "done"]
         /\ ret' = [ret EXCEPT ![w] = v]
         /\ UNCHANGED coords
    ELSE /\ pc' = [pc EXCEPT ![w] = "n_build"]
         /\ coords' = [coords EXCEPT ![w] = v]
         /\ UNCHANGED ret

\* The check without its first test: the file is consulted every time.
TsneCheckIgnoresMemory(w) ==
    /\ pc[w] = "t_check"
    /\ pc' = [pc EXCEPT ![w] =
                 IF FileExists(cacheFiles[TsneFileName]) THEN "t_load" ELSE "t_gen"]
    /\ UNCHANGED <<observerVars, scraperVars, simVars, cacheFiles, tsneMem, req, coords, ret, computed,
                   atStart, calls, logged>>

\* if self._tsne_coordinates_cache is not None ... if self.tsne_cache_file.exists()
TsneCheck(w) ==
    /\ pc[w] = "t_check"
    /\ IF tsneMem[w] # NoData
       THEN TsneReturns(w, tsneMem[w])
       ELSE /\ pc' = [pc EXCEPT ![w] =
                        IF FileExists(cacheFiles[TsneFileName]) THEN "t_load" ELSE "t_gen"]
            /\ UNCHANGED <<coords, ret>>
    /\ UNCHANGED <<observerVars, scraperVars, simVars, cacheFiles, tsneMem, req, computed, atStart, calls,
                   logged>>

\* json.load of the cache file; a failure is logged and generation follows.
TsneLoad(w) ==
    /\ pc[w] = "t_load"
    /\ IF JsonLoads(cacheFiles[TsneFileName])
       THEN /\ tsneMem' = [tsneMem EXCEPT ![w] = cacheFiles[TsneFileName].data]
            /\ TsneReturns(w, cacheFiles[TsneFileName].data)
            /\ UNCHANGED logged
       ELSE /\ pc' = [pc EXCEPT ![w] = "t_gen"]
            /\ logged' = LogError(w, LoadError(TsneFileName))
            /\ UNCHANGED <<tsneMem, coords, ret>>
    /\ UNCHANGED <<observerVars, scraperVars, simVars, cacheFiles, req, computed, atStart, calls>>

\* What a finished or failed json.dump leaves in the file: the whole dump, or a
\* partial file when the dump fails or another writer's bytes are mixed in.
DumpOutcomes(data) == {JsonDump(data), PartialFile}

\* coordinates = self._generate_tsne_coordinates();
\* self._tsne_coordinates_cache = coordinates; then open(file, 'w'), which
\* truncates the file.  If the open fails the error is logged and the value is
\* returned uncached.
TsneGenerate(w) ==
    /\ pc[w] = "t_gen"
    /\ \E draw \in Draws :
         \E c \in {GenerateTsneCoordinates(draw)} :
            /\ tsneMem' = [tsneMem EXCEPT ![w] = c]
            /\ \/ /\ cacheFiles' = [cacheFiles EXCEPT ![TsneFileName] = PartialFile]
                  /\ coords' = [coords EXCEPT ![w] = c]
                  /\ pc' = [pc EXCEPT ![w] = "t_write"]
                  /\ UNCHANGED <<ret, logged>>
               \/ /\ TsneReturns(w, c)
                  /\ logged' = LogError(w, SaveError(TsneFileName))
                  /\ UNCHANGED cacheFiles
    /\ computed' = [computed EXCEPT ![w] = @ \cup {TsneFileName}]
    /\ UNCHANGED <<observerVars, scraperVars, simVars, req, atStart, calls>>

\* json.dump(coordinates, f); any error is logged; return coordinates
TsneWrite(w) ==
    /\ pc[w] = "t_write"
    /\ \E file \in DumpOutcomes(coords[w]), raised \in BOOLEAN :
         /\ DumpRaised(w, TsneFileName, file, raised)
         /\ cacheFiles' = [cacheFiles EXCEPT ![TsneFileName] = file]
         /\ logged' = IF raised THEN LogError(w, SaveError(TsneFileName)) ELSE logged
    /\ TsneReturns(w, coords[w])
    /\ UNCHANGED <<observerVars, scraperVars, simVars, tsneMem, req, computed, atStart, calls>>

\* if cache_file.exists()
NetworkCheck(w) ==
    /\ pc[w] = "n_check"
    /\ pc' = [pc EXCEPT ![w] =
                IF FileExists(cacheFiles[req[w].file]) THEN "n_load" ELSE "n_gen"]
    /\ UNCHANGED <<observerVars, scraperVars, simVars, cacheFiles, tsneMem, req, coords, ret, computed,
                   atStart, calls, logged>>

\* json.load of the cache file; a failure is logged and generation follows.
NetworkLoad(w) ==
    /\ pc[w] = "n_load"
    /\ IF JsonLoads(cacheFiles[req[w].file])
       THEN /\ pc' = [pc EXCEPT ![w] = "done"]
            /\ ret' = [ret EXCEPT ![w] = cacheFiles[req[w].file].data]
            /\ UNCHANGED logged
       ELSE /\ pc' = [pc EXCEPT ![w] = "n_gen"]
            /\ logged' = LogError(w, LoadError(req[w].file))
            /\ UNCHANGED ret
    /\ UNCHANGED <<observerVars, scraperVars, simVars, cacheFiles, tsneMem, req, coords, computed, atStart, calls>>

\* _generate_similarity_network_data up to its call of get_tsne_coordinates.  With
\* no target paper the ValueError reaches the except clause, which passes the
\* unbound similar_papers to the fallback: the call raises.
NetworkGenerate(w) ==
    /\ pc[w] = "n_gen"
    /\ computed' = [computed EXCEPT ![w] = @ \cup {req[w].file}]
    /\ IF HasPaper(req[w].paper_id)
       THEN /\ pc' = [pc EXCEPT ![w] = "t_check"]
            /\ UNCHANGED ret
       ELSE /\ pc' = [pc EXCEPT ![w] = "done"]
            /\ ret' = [ret EXCEPT ![w] = Raised]
    /\ UNCHANGED <<observerVars, scraperVars, simVars, cacheFiles, tsneMem, req, coords, atStart, calls,
                   logged>>

\* The rest of _generate_similarity_network_data, then open(cache_file, 'w').
NetworkBuild(w) ==
    /\ pc[w] = "n_build"
    /\ \E draw \in Draws :
         \E data \in {GenerateNetworkData(req[w].paper_id, req[w].top_k, coords[w], draw)} :
            \/ /\ cacheFiles' = [cacheFiles EXCEPT ![req[w].file] = PartialFile]
               /\ coords' = [coords EXCEPT ![w] = data]
               /\ pc' = [pc EXCEPT ![w] = "n_write"]
               /\ UNCHANGED <<ret, logged>>
            \/ /\ pc' = [pc EXCEPT ![w] = "done"]
               /\ ret' = [ret EXCEPT ![w] = data]
               /\ logged' = LogError(w, SaveError(req[w].file))
               /\ UNCHANGED <<cacheFiles, coords>>
    /\ UNCHANGED <<observerVars, scraperVars, simVars, tsneMem, req, computed, atStart, calls>>

\* A save whose json.dump error is not caught: it reaches the caller.
NetworkWriteRaises(w) ==
    /\ pc[w] = "n_write"
    /\ \E file \in DumpOutcomes(coords[w]), raised \in BOOLEAN :
         /\ DumpRaised(w, req[w].file, file, raised)
         /\ cacheFiles' = [cacheFiles EXCEPT ![req[w].file] = file]
         /\ logged' = IF raised THEN LogError(w, SaveError(req[w].file)) ELSE logged
         /\ ret' = [ret EXCEPT ![w] = IF raised THEN Raised ELSE coords[w]]
    /\ pc' = [pc EXCEPT ![w] = "done"]
    /\ UNCHANGED <<observerVars, scraperVars, simVars, tsneMem, req, coords, computed, atStart, calls>>

\* json.dump(network_data, f); any error is logged; return network_data
NetworkWrite(w) ==
    /\ pc[w] = "n_write"
    /\ \E file \in DumpOutcomes(coords[w]), raised \in BOOLEAN :
         /\ DumpRaised(w, req[w].file, file, raised)
         /\ cacheFiles' = [cacheFiles EXCEPT ![req[w].file] = file]
         /\ logged' = IF raised THEN LogError(w, SaveError(req[w].file)) ELSE logged
    /\ pc' = [pc EXCEPT ![w] = "done"]
    /\ ret' = [ret EXCEPT ![w] = coords[w]]
    /\ UNCHANGED <<observerVars, scraperVars, simVars, tsneMem, req, coords, computed, atStart, calls>>

\* The call is over: its locals are gone and the worker takes the next request.
Return(w) ==
    /\ pc[w] = "done"
    /\ pc' = [pc EXCEPT ![w] = "idle"]
    /\ req' = [req EXCEPT ![w] = [op |-> "none"]]
    /\ coords' = [coords EXCEPT ![w] = NoData]
    /\ ret' = [ret EXCEPT ![w] = NoData]
    /\ computed' = [computed EXCEPT ![w] = {}]
    /\ atStart' = [atStart EXCEPT ![w] = NoData]
    /\ logged' = [logged EXCEPT ![w] = {}]
    /\ UNCHANGED <<observerVars, scraperVars, simVars, cacheFiles, tsneMem, calls>>

\* The stores the cache is exercised on: an empty index, paper A alone, B and A,
\* and B, A and D where D has a paper record and no embedding file.
CacheStores == {[index |-> <<>>, papers |-> {"A"}, emb |-> ScenarioCorpus],
                [index |-> <<"A">>, papers |-> {"A"}, emb |-> ScenarioCorpus],
                [index |-> <<"B", "A">>, papers |-> {"A", "B"}, emb |-> ScenarioCorpus],
                [index |-> <<"B", "A", "D">>, papers |-> {"A", "B", "D"},
                 emb |-> TiesCorpus]}

CacheInit ==
    /\ \E store \in CacheStores :
          /\ paperIndex = store.index
          /\ paperFile = store.papers
          /\ embFile = store.emb
    /\ subjectAreas = RecordAreas
    /\ papersCache = {}
    /\ embeddingsCache = <<>>
    /\ indexLoaded = FALSE
    /\ allEmbeddings = NotLoaded
    /\ response = Idle
    /\ lastGraph = Idle
    /\ ScraperVarsInit
    /\ CacheVarsInit

CacheStep(w, serial) ==
    \/ StartTsne(w, serial)
    \/ \E paper_id \in CachePapers, top_k \in TopKs :
          StartNetwork(w, serial, paper_id, top_k)
    \/ TsneCheck(w)
    \/ TsneLoad(w)
    \/ TsneGenerate(w)
    \/ TsneWrite(w)
    \/ NetworkCheck(w)
    \/ NetworkLoad(w)
    \/ NetworkGenerate(w)
    \/ NetworkBuild(w)
    \/ NetworkWrite(w)
    \/ Return(w)

\* Requests served one at a time: a request runs to its end before the next starts.
CacheSerialNext == \E w \in Workers : CacheStep(w, TRUE)

\* Requests of several worker processes overlapping on the shared cache directory.
CacheNext == \E w \in Workers : CacheStep(w, FALSE)

SpecCacheSerial == CacheInit /\ [][CacheSerialNext]_vars

SpecCache == CacheInit /\ [][CacheNext]_vars

\* tsne_coordinates.json is deleted, cut short or replaced by another complete
\* coordinates file from outside the service.
TsneFileChanges(file) ==
    /\ file # cacheFiles[TsneFileName]
    /\ cacheFiles' = [cacheFiles EXCEPT ![TsneFileName] = file]
    /\ UNCHANGED <<observerVars, scraperVars, simVars, tsneMem, pc, req, coords, ret, computed, atStart,
                   calls, logged>>

\* What the file can be replaced by.
ForeignTsneFiles ==
    {AbsentFile, PartialFile} \cup {JsonDump(GenerateFallbackCoordinates(draw)) : draw \in Draws}

\* The steps of a get_tsne_coordinates request of worker w.
TsneRequestStep(w) ==
    \/ StartTsne(w, TRUE)
    \/ TsneCheck(w)
    \/ TsneLoad(w)
    \/ TsneGenerate(w)
    \/ TsneWrite(w)
    \/ Return(w)

\* Coordinate requests served one at a time while the coordinates file changes
\* under them.
CacheTamperNext ==
    \/ \E w \in Workers : TsneRequestStep(w)
    \/ \E file \in ForeignTsneFiles : TsneFileChanges(file)

SpecCacheTamper == CacheInit /\ [][CacheTamperNext]_vars

\* The call of worker w is abandoned where it stands: the request is cancelled or
\* interrupted (the except clauses catch Exception only), its locals are gone,
\* and an opened cache file stays as it is: nothing is written to a temporary
\* file and renamed.
Abandon(w) ==
    /\ pc[w] \notin {"idle", "done"}
    /\ pc' = [pc EXCEPT ![w] = "idle"]
    /\ req' = [req EXCEPT ![w] = [op |-> "none"]]
    /\ coords' = [coords EXCEPT ![w] = NoData]
    /\ ret' = [ret EXCEPT ![w] = NoData]
    /\ computed' = [computed EXCEPT ![w] = {}]
    /\ atStart' = [atStart EXCEPT ![w] = NoData]
    /\ logged' = [logged EXCEPT ![w] = {}]
    /\ UNCHANGED <<observerVars, scraperVars, simVars, cacheFiles, tsneMem, calls>>

\* Requests served one at a time, any of which may be abandoned.
CacheAbandonNext ==
    \/ CacheSerialNext
    \/ \E w \in Workers : Abandon(w)

SpecCacheAbandon == CacheInit /\ [][CacheAbandonNext]_vars

---------------------------------------------------------------------------
(* The similarity engine serving one request after another *)

\* Bounds of the requests.
MaxLimit == 3
MaxEdgesArg == 2
MaxSample == 2
MaxClusters == 2
Thresholds == {0, 35, 100}

\* The index files: empty, one id, or all four ids in any order.
IndexOrders == {s \in InjSeqs(PaperIds) : Len(s) \in {0, 1, Cardinality(PaperIds)}}

SimInit ==
    /\ paperIndex \in IndexOrders
    /\ embFile \in Corpora
    /\ paperFile \in {PaperIds, PaperIds \ {"B"}}
    /\ subjectAreas = RecordAreas
    /\ papersCache = {}
    /\ embeddingsCache = <<>>
    /\ indexLoaded = FALSE
    /\ allEmbeddings = NotLoaded
    /\ response = Idle
    /\ lastGraph = Idle
    /\ ScraperVarsInit
    /\ CacheVarsInit

\* The response goes back to the caller; the caches stay.
Respond ==
    /\ response # Idle
    /\ response' = Idle
    /\ UNCHANGED <<observerVars, scraperVars, cacheVars, paperIndex, embFile, paperFile, subjectAreas, papersCache,
                   embeddingsCache, indexLoaded, allEmbeddings>>

SimNext ==
    \/ \E paper_id \in PaperIds, limit \in 1..MaxLimit : FindSimilarPapers(paper_id, limit)
    \/ \E threshold \in Thresholds, max_edges \in 1..MaxEdgesArg,
          sample_size \in 0..MaxSample, subject_areas \in {{}, {"seg"}} :
          GenerateGraphData(threshold, max_edges, sample_size, subject_areas)
    \/ \E n_clusters \in 0..MaxClusters : GetPaperClusters(n_clusters)
    \/ Respond

SpecSim == SimInit /\ [][SimNext]_vars

---------------------------------------------------------------------------
(* The single-document queries of api/papers.py *)

\* limit: int = Query(20, ge=5, le=50) of get_network_data
MinNetworkLimit == 5

HttpOk == 200
HttpNotFound == 404

\* What find_similar_papers(paper_id, limit) returns in the current state.
SimilarNow(paper_id, limit) ==
    LET target == GetEmbeddingById(embeddingsCache, paper_id)
        cache1 == CacheAfterGet(embeddingsCache, paper_id)
    IN  FindSimilarValue(target, GetEmbeddingsKeys(cache1),
                         CacheAfterGetEmbeddings(cache1), paper_id, limit)

\* The ids find_similar_papers looks up with get_paper_by_id.
SimilarLookedUp(paper_id, limit) ==
    LET target == GetEmbeddingById(embeddingsCache, paper_id)
        cache1 == CacheAfterGet(embeddingsCache, paper_id)
        top == IF target = NoVec THEN <<>>
               ELSE RankedSimilar(target, GetEmbeddingsKeys(cache1),
                                  CacheAfterGetEmbeddings(cache1), paper_id, limit)
    IN  {top[i].id : i \in DOMAIN top}

\* What find_similar_papers(paper_id, limit) leaves in the loader and the service.
FindSimilarLoads(paper_id) ==
    LET target == GetEmbeddingById(embeddingsCache, paper_id)
        cache1 == CacheAfterGet(embeddingsCache, paper_id)
    IN  IF target = NoVec
        THEN /\ embeddingsCache' = cache1
             /\ UNCHANGED <<allEmbeddings, indexLoaded>>
        ELSE /\ embeddingsCache' = CacheAfterGetEmbeddings(cache1)
             /\ allEmbeddings' = [loaded |-> TRUE, keys |-> GetEmbeddingsKeys(cache1)]
             /\ indexLoaded' = TRUE

\* GET /{paper_id}/similar: 404 without a paper record, else the similar papers.
GetSimilarPapers(paper_id, limit) ==
    /\ response = Idle
    /\ IF ~HasPaper(paper_id)
       THEN /\ response' = [op |-> "api_similar", paper_id |-> paper_id, limit |-> limit,
                            status |-> HttpNotFound, value |-> <<>>]
            /\ UNCHANGED <<papersCache, embeddingsCache, allEmbeddings, indexLoaded>>
       ELSE /\ response' = [op |-> "api_similar", paper_id |-> paper_id, limit |-> limit,
                            status |-> HttpOk, value |-> SimilarNow(paper_id, limit)]
            /\ papersCache' = papersCache \cup {paper_id}
                                \cup (SimilarLookedUp(paper_id, limit) \cap paperFile)
            /\ FindSimilarLoads(paper_id)
    /\ UNCHANGED <<observerVars, scraperVars, cacheVars, paperIndex, embFile, paperFile, subjectAreas>>

\* GraphData(nodes=[], edges=[], clusters={})
EmptyGraphData == [nodes |-> <<>>, edges |-> <<>>, clusters |-> <<>>]

\* generate_network_data with the target found: the target as central node
\* (cluster 0), a node (cluster 1) and an edge from the target per similar paper.
NetworkDataValue(paper_id, similar) ==
    [nodes |-> <<[id |-> paper_id, cluster |-> 0]>> \o
               [i \in DOMAIN similar |-> [id |-> similar[i].id, cluster |-> 1]],
     edges |-> [i \in DOMAIN similar |->
                  [source |-> paper_id, target |-> similar[i].id,
                   similarity |-> similar[i].score]],
     clusters |-> <<>>]

\* GET /network/data: whatever generate_network_data returns is sent with 200;
\* without a paper record that is the empty GraphData.
GetNetworkData(paper_id, limit) ==
    /\ response = Idle
    /\ IF ~HasPaper(paper_id)
       THEN /\ response' = [op |-> "api_network", paper_id |-> paper_id,
                            status |-> HttpOk, value |-> EmptyGraphData]
            /\ UNCHANGED <<papersCache, embeddingsCache, allEmbeddings, indexLoaded>>
       ELSE /\ response' = [op |-> "api_network", paper_id |-> paper_id,
                            status |-> HttpOk,
                            value |-> NetworkDataValue(paper_id, SimilarNow(paper_id, limit))]
            /\ papersCache' = papersCache \cup {paper_id}
                                \cup (SimilarLookedUp(paper_id, limit) \cap paperFile)
            /\ FindSimilarLoads(paper_id)
    /\ UNCHANGED <<observerVars, scraperVars, cacheVars, paperIndex, embFile, paperFile, subjectAreas>>

ApiInit ==
    /\ paperIndex \in {<<"A", "B", "C", "D">>, <<"D", "C", "B", "A">>}
    /\ embFile \in {ScenarioCorpus, TiesCorpus}
    /\ paperFile \in {PaperIds, PaperIds \ {"B"}}
    /\ subjectAreas = RecordAreas
    /\ papersCache = {}
    /\ embeddingsCache = <<>>
    /\ indexLoaded = FALSE
    /\ allEmbeddings = NotLoaded
    /\ response = Idle
    /\ lastGraph = Idle
    /\ ScraperVarsInit
    /\ CacheVarsInit

ApiNext ==
    \/ \E paper_id \in PaperIds, limit \in 1..MaxLimit : GetSimilarPapers(paper_id, limit)
    \/ \E paper_id \in PaperIds : GetNetworkData(paper_id, MinNetworkLimit)
    \/ Respond

SpecApi == ApiInit /\ [][ApiNext]_vars

---------------------------------------------------------------------------
(* The Query constraints of api/papers.py *)

\* The status of FastAPI's RequestValidationError response.
HttpUnprocessable == 422

\* limit: int = Query(10, ge=1, le=50) of get_similar_papers
MinSimilarLimit == 1
MaxSimilarLimit == 50
\* max_edges: int = Query(1000, ge=100, le=5000)
MinMaxEdges == 100
MaxMaxEdges == 5000
\* sample_size: Optional[int] = Query(None, ge=50, le=500); 0 stands for None
MinSampleSize == 50
MaxSampleSize == 500
\* n_clusters: int = Query(10, ge=2, le=20)
MinClustersArg == 2
MaxClustersArg == 20

\* A threshold check that lets every value through.
ThresholdUnchecked(similarity_threshold) == TRUE

\* similarity_threshold: float = Query(0.7, ge=0.0, le=1.0)
ThresholdValid(similarity_threshold) ==
    0 <= similarity_threshold /\ similarity_threshold <= ScoreScale

MaxEdgesValid(max_edges) == MinMaxEdges <= max_edges /\ max_edges <= MaxMaxEdges

SampleSizeValid(sample_size) ==
    sample_size = 0 \/ (MinSampleSize <= sample_size /\ sample_size <= MaxSampleSize)

LimitValid(limit) == MinSimilarLimit <= limit /\ limit <= MaxSimilarLimit

ClustersArgValid(n_clusters) == MinClustersArg <= n_clusters /\ n_clusters <= MaxClustersArg

\* The framework answers a request whose query parameters break a constraint
\* before the handler body runs.
Reject(handler, args) ==
    /\ response = Idle
    /\ response' = [op |-> "rejected", handler |-> handler, args |-> args,
                    status |-> HttpUnprocessable]
    /\ UNCHANGED <<observerVars, scraperVars, cacheVars, paperIndex, embFile, paperFile, subjectAreas,
                   papersCache, embeddingsCache, indexLoaded, allEmbeddings>>

\* GET /papers/{paper_id}/similar
ApiGetSimilarPapers(paper_id, limit) ==
    IF LimitValid(limit)
    THEN GetSimilarPapers(paper_id, limit)
    ELSE Reject("similar", <<limit>>)

\* GET /papers/graph/data: the graph, or HTTP 500 when generate_graph_data raises.
ApiGetGraphData(similarity_threshold, max_edges, sample_size, subject_areas) ==
    IF /\ ThresholdValid(similarity_threshold)
       /\ MaxEdgesValid(max_edges)
       /\ SampleSizeValid(sample_size)
    THEN GenerateGraphData(similarity_threshold, max_edges, sample_size, subject_areas)
    ELSE Reject("graph", <<similarity_threshold, max_edges, sample_size>>)

\* detailed_clusters: the members of each cluster that have a paper record.
DetailedClusters(clusters) ==
    [c \in DOMAIN clusters |-> SelectIn(clusters[c], paperFile)]

\* GET /papers/clusters/: get_paper_clusters, then get_paper_by_id for every
\* member; HTTP 500 when KMeans raises.
ApiGetPaperClusters(n_clusters) ==
    IF ~ClustersArgValid(n_clusters)
    THEN Reject("clusters", <<n_clusters>>)
    ELSE
    /\ response = Idle
    /\ \E keys \in {GetEmbeddingsKeys(embeddingsCache)},
          cache \in {CacheAfterGetEmbeddings(embeddingsCache)} :
      \E k \in {EffectiveClusters(Len(keys), n_clusters)} :
        /\ \/ /\ Len(keys) = 0
              /\ response' = [op |-> "clusters", n_clusters |-> n_clusters,
                              error |-> "none", value |-> <<>>]
              /\ UNCHANGED papersCache
           \/ /\ Len(keys) # 0
              /\ ~KMeansAccepts(Len(keys), k)
              /\ response' = [op |-> "clusters", n_clusters |-> n_clusters,
                              error |-> "KMeansError", value |-> <<>>]
              /\ UNCHANGED papersCache
           \/ /\ Len(keys) # 0
              /\ KMeansAccepts(Len(keys), k)
              /\ \E labels \in KMeansFitPredict(Len(keys), k) :
                   response' = [op |-> "clusters", n_clusters |-> n_clusters,
                                error |-> "none",
                                value |-> DetailedClusters(ClustersOf(keys, labels))]
              /\ papersCache' = papersCache \cup (Range(keys) \cap paperFile)
        /\ embeddingsCache' = cache
        /\ allEmbeddings' = [loaded |-> TRUE, keys |-> keys]
        /\ indexLoaded' = TRUE
        /\ UNCHANGED <<observerVars, scraperVars, cacheVars, paperIndex, embFile, paperFile, subjectAreas>>

\* The query values sent: inside, on the edge of and outside each constraint.
QueryThresholds == {-1, 0, 35, ScoreScale, ScoreScale + 1}
QueryMaxEdges == {-1, 0, MinMaxEdges - 1, MinMaxEdges}
QuerySampleSizes == {0, 2, MinSampleSize}
QueryLimits == {-1, 0, 1, 2, MaxSimilarLimit + 1}
QueryClusters == {-1, 0, 1, MinClustersArg, MaxClustersArg + 1}

QueryNext ==
    \/ \E paper_id \in PaperIds, limit \in QueryLimits :
          ApiGetSimilarPapers(paper_id, limit)
    \/ \E similarity_threshold \in QueryThresholds, max_edges \in QueryMaxEdges,
          sample_size \in QuerySampleSizes, subject_areas \in {{}, {"seg"}} :
          ApiGetGraphData(similarity_threshold, max_edges, sample_size, subject_areas)
    \/ \E n_clusters \in QueryClusters : ApiGetPaperClusters(n_clusters)
    \/ Respond

SpecQuery == ApiInit /\ [][QueryNext]_vars

---------------------------------------------------------------------------
(* DataLoader.search_papers *)

MaxSearchLimit == 2

\* Texts are sequences of characters.  str.lower():
LowerChar(c) == IF c = "M" THEN "m" ELSE IF c = "R" THEN "r" ELSE c
Lower(text) == [i \in DOMAIN text |-> LowerChar(text[i])]

\* `query in text` of str: query occurs as a contiguous run of text; the empty
\* string occurs in every string.
Contains(query, text) ==
    \E i \in 0..(Len(text) - Len(query)) : SubSeq(text, i + 1, i + Len(query)) = query

\* The fields search_papers looks into.
AreaName(area) == IF area = "seg" THEN <<"s", "e", "g">> ELSE <<"r", "e", "g">>
PaperTexts ==
    [A |-> [title |-> <<"M", "R", "i">>, abstract |-> <<"s", "e", "g">>,
            authors |-> {<<"a", "m", "i">>}],
     B |-> [title |-> <<"g", "e", "m">>, abstract |-> <<>>,
            authors |-> {<<"R", "a", "e">>, <<"M", "i", "a">>}],
     C |-> [title |-> <<"r", "i", "m">>, abstract |-> <<"a">>,
            authors |-> {}],
     D |-> [title |-> <<>>, abstract |-> <<>>, authors |-> {}]]

\* The condition of the loop of search_papers for one paper.
Matches(query_lower, id) ==
    \/ Contains(query_lower, Lower(PaperTexts[id].title))
    \/ Contains(query_lower, Lower(PaperTexts[id].abstract))
    \/ \E area \in subjectAreas[id] : Contains(query_lower, Lower(AreaName(area)))
    \/ \E name \in PaperTexts[id].authors : Contains(query_lower, Lower(name))

\* seq[:limit] of a Python list: a negative limit counts from the end.
SliceTo(seq, limit) ==
    IF limit >= 0 THEN Take(seq, limit)
    ELSE Take(seq, IF Len(seq) + limit > 0 THEN Len(seq) + limit ELSE 0)

\* matching_papers[:limit]
SearchValue(query, limit) ==
    SliceTo(SelectIn(AllPapers, {id \in PaperIds : Matches(Lower(query), id)}), limit)

\* search_papers(query, limit): get_all_papers loads the index and every record.
SearchPapers(query, limit) ==
    /\ response = Idle
    /\ response' = [op |-> "search", query |-> query, limit |-> limit,
                    value |-> SearchValue(query, limit)]
    /\ indexLoaded' = TRUE
    /\ papersCache' = papersCache \cup Range(AllPapers)
    /\ UNCHANGED <<observerVars, scraperVars, cacheVars, paperIndex, embFile, paperFile, subjectAreas,
                   embeddingsCache, allEmbeddings>>

\* The queries sent: the empty string, and strings with and without a match.
Queries == {<<>>, <<"m">>, <<"M", "r">>, <<"e", "g">>, <<"s", "s">>}

SearchInit ==
    /\ paperIndex \in {<<>>, <<"A">>, <<"A", "B", "C", "D">>, <<"D", "C", "B", "A">>}
    /\ embFile = ScenarioCorpus
    /\ paperFile \in {PaperIds, PaperIds \ {"B"}}
    /\ subjectAreas = RecordAreas
    /\ papersCache = {}
    /\ embeddingsCache = <<>>
    /\ indexLoaded = FALSE
    /\ allEmbeddings = NotLoaded
    /\ response = Idle
    /\ lastGraph = Idle
    /\ ScraperVarsInit
    /\ CacheVarsInit

SearchNext ==
    \/ \E query \in Queries, limit \in -1..MaxSearchLimit : SearchPapers(query, limit)
    \/ Respond

SpecSearch == SearchInit /\ [][SearchNext]_vars

---------------------------------------------------------------------------
(* generate_graph_data on a store large enough to be clustered *)

\* The smallest number of selected papers for which n_clusters > 1.
ClusteredSize == 2 * PapersPerCluster
ManyIds == 1..ClusteredSize

\* The stores: every id indexed with an embedding, and at most one id without a
\* paper record.
ClusteredInit ==
    /\ paperIndex = [i \in ManyIds |-> i]
    /\ embFile = [id \in ManyIds |-> IF id % 2 = 0 THEN vA ELSE vB]
    /\ \E missing \in {{}} \cup {{id} : id \in ManyIds} :
          paperFile = ManyIds \ missing
    /\ subjectAreas = [id \in ManyIds |-> {}]
    /\ papersCache = {}
    /\ embeddingsCache = <<>>
    /\ indexLoaded = FALSE
    /\ allEmbeddings = NotLoaded
    /\ response = Idle
    /\ lastGraph = Idle
    /\ ScraperVarsInit
    /\ CacheVarsInit

ClusteredNext ==
    \/ GenerateGraphData(ScoreScale, MaxEdgesArg, 0, {})
    \/ Respond

SpecClustered == ClusteredInit /\ [][ClusteredNext]_vars

---------------------------------------------------------------------------
(* DataLoader's embedding lookups over a store whose files change *)

\* An embedding file that exists and on which np.load raises (not an npz
\* archive, cut short, or without an 'embedding' array).
Unreadable == <<-1>>

\* What an embedding file can be replaced by between two requests.
LoaderFiles == {NoVec, vA, vB, Unreadable}
\* The ids whose files change.
LoaderIds == {"A", "B", "C"}

\* get_embedding_by_id(id) raises: the id is not cached and its file is unreadable.
ReadRaises(cache, id) == id \notin DOMAIN cache /\ embFile[id] = Unreadable

\* The positions of the index at which get_all_embeddings' loop raises.
RaisingPositions(cache) == {i \in DOMAIN paperIndex : ReadRaises(cache, paperIndex[i])}

\* The least member of a non-empty set of positions.
First(S) == CHOOSE i \in S : \A j \in S : i <= j

\* get_embedding_by_id(id) called on the loader.
LoaderGet(id) ==
    /\ response = Idle
    /\ IF ReadRaises(embeddingsCache, id)
       THEN /\ response' = [op |-> "get", id |-> id, error |-> "ReadError",
                            value |-> NoVec, read |-> TRUE]
            /\ UNCHANGED embeddingsCache
       ELSE /\ response' = [op |-> "get", id |-> id, error |-> "none",
                            value |-> GetEmbeddingById(embeddingsCache, id),
                            read |-> id \notin DOMAIN embeddingsCache]
            /\ embeddingsCache' = CacheAfterGet(embeddingsCache, id)
    /\ UNCHANGED <<observerVars, scraperVars, cacheVars, paperIndex, embFile, paperFile, subjectAreas, papersCache,
                   indexLoaded, allEmbeddings>>

\* get_all_embeddings() called on the loader: the loop over the index stops at
\* the first id whose read raises, with the ids before it cached.
LoaderGetAll ==
    /\ response = Idle
    /\ IF RaisingPositions(embeddingsCache) = {}
       THEN /\ response' = [op |-> "getall", error |-> "none",
                            keys |-> GetAllEmbeddings(embeddingsCache)]
            /\ embeddingsCache' = CacheAfterGetAll(embeddingsCache)
       ELSE LET before == Take(paperIndex, First(RaisingPositions(embeddingsCache)) - 1)
                new == {id \in Range(before) :
                           id \notin DOMAIN embeddingsCache /\ embFile[id] # NoVec}
            IN  /\ response' = [op |-> "getall", error |-> "ReadError", keys |-> <<>>]
                /\ embeddingsCache' =
                      [x \in DOMAIN embeddingsCache \cup new |->
                          IF x \in DOMAIN embeddingsCache THEN embeddingsCache[x]
                          ELSE embFile[x]]
    /\ indexLoaded' = TRUE
    /\ UNCHANGED <<observerVars, scraperVars, cacheVars, paperIndex, embFile, paperFile, subjectAreas, papersCache,
                   allEmbeddings>>

\* Between two requests an embedding file is written, replaced or removed.
StorageChanges(id, file) ==
    /\ response = Idle
    /\ file # embFile[id]
    /\ embFile' = [embFile EXCEPT ![id] = file]
    /\ UNCHANGED <<observerVars, scraperVars, cacheVars, paperIndex, paperFile, subjectAreas, papersCache,
                   embeddingsCache, indexLoaded, allEmbeddings, response>>

LoaderInit ==
    /\ paperIndex \in {<<>>, <<"A", "B", "C">>, <<"C", "D", "A", "B">>}
    /\ embFile = TiesCorpus
    /\ paperFile = PaperIds
    /\ subjectAreas = RecordAreas
    /\ papersCache = {}
    /\ embeddingsCache = <<>>
    /\ indexLoaded = FALSE
    /\ allEmbeddings = NotLoaded
    /\ response = Idle
    /\ lastGraph = Idle
    /\ ScraperVarsInit
    /\ CacheVarsInit

LoaderNext ==
    \/ \E id \in PaperIds : LoaderGet(id)
    \/ LoaderGetAll
    \/ \E id \in LoaderIds, file \in LoaderFiles : StorageChanges(id, file)
    \/ Respond

SpecLoader == LoaderInit /\ [][LoaderNext]_vars

---------------------------------------------------------------------------
(* The same graph request sent again *)

\* The response goes back to the caller, who keeps the last graph received.
RespondObserved ==
    /\ response # Idle
    /\ response' = Idle
    /\ lastGraph' = IF response.op = "graph" THEN response ELSE lastGraph
    /\ UNCHANGED <<cacheVars, scraperVars, paperIndex, embFile, paperFile, subjectAreas, papersCache,
                   embeddingsCache, indexLoaded, allEmbeddings>>

RepeatInit ==
    /\ paperIndex \in {<<"A", "B", "C", "D">>, <<"A">>}
    /\ embFile = ScenarioCorpus
    /\ paperFile = PaperIds
    /\ subjectAreas = RecordAreas
    /\ papersCache = {}
    /\ embeddingsCache = <<>>
    /\ indexLoaded = FALSE
    /\ allEmbeddings = NotLoaded
    /\ response = Idle
    /\ lastGraph = Idle
    /\ ScraperVarsInit
    /\ CacheVarsInit

RepeatNext ==
    \/ \E sample_size \in 0..MaxSample, subject_areas \in {{}, {"seg"}} :
          GenerateGraphData(35, MaxEdgesArg, sample_size, subject_areas)
    \/ \E paper_id \in {"A", "D"} : FindSimilarPapers(paper_id, MaxLimit)
    \/ RespondObserved

SpecRepeat == RepeatInit /\ [][RepeatNext]_vars

---------------------------------------------------------------------------
(* MICCAIParallelScraper: the counters of a parallel scrape *)

\* The positions at which a process_paper_parallel call occupies a pool thread.
OnThread == {"try", "lock", "load_processed", "store_processed",
             "load_outcome", "store_outcome"}

Running == {t \in Tasks : task[t].at \in OnThread}

\* extract_all_papers_metadata and the max_papers slice leave n papers; with
\* none, scrape_all_papers_parallel returns [] at once.
ExtractAllPapersMetadata(n) ==
    /\ scrape = "start"
    /\ papers_metadata' = n
    /\ scrape' = IF n = 0 THEN "returned" ELSE "submit"
    /\ UNCHANGED <<simVars, cacheVars, observerVars, max_workers, lock, processed_count,
                   success_count, error_count, task, loaded, papers>>

\* executor.submit of the next paper, in the order of papers_metadata.
Submit(t) ==
    /\ scrape = "submit"
    /\ task[t].at = "unsubmitted"
    /\ \A u \in 1..(t - 1) : task[u].at # "unsubmitted"
    /\ task' = [task EXCEPT ![t].at = "queued"]
    /\ scrape' = IF t = papers_metadata THEN "collect" ELSE "submit"
    /\ UNCHANGED <<simVars, cacheVars, observerVars, max_workers, lock, processed_count,
                   success_count, error_count, papers_metadata, loaded, papers>>

\* A free pool thread takes the oldest queued call.
StartTask(t) ==
    /\ task[t].at = "queued"
    /\ \A u \in 1..(t - 1) : task[u].at # "queued"
    /\ Cardinality(Running) < max_workers
    /\ task' = [task EXCEPT ![t].at = "try"]
    /\ UNCHANGED <<simVars, cacheVars, observerVars, max_workers, lock, processed_count,
                   success_count, error_count, papers_metadata, loaded, papers, scrape>>

\* The try block builds the Paper, or raises an Exception on the way; either
\* way the call goes on to `with self.lock`.
TryBlock(t, built) ==
    /\ task[t].at = "try"
    /\ task' = [task EXCEPT ![t] = [at |-> "lock", built |-> built]]
    /\ UNCHANGED <<simVars, cacheVars, observerVars, max_workers, lock, processed_count,
                   success_count, error_count, papers_metadata, loaded, papers, scrape>>

\* A call that enters the with block without waiting for the lock.
AcquireUnlocked(t) ==
    /\ task[t].at = "lock"
    /\ lock' = t
    /\ task' = [task EXCEPT ![t].at = "load_processed"]
    /\ UNCHANGED <<simVars, cacheVars, observerVars, max_workers, processed_count,
                   success_count, error_count, papers_metadata, loaded, papers, scrape>>

\* `with self.lock:` is entered once no other call holds the lock.
Acquire(t) ==
    /\ task[t].at = "lock"
    /\ lock = Free
    /\ lock' = t
    /\ task' = [task EXCEPT ![t].at = "load_processed"]
    /\ UNCHANGED <<simVars, cacheVars, observerVars, max_workers, processed_count,
                   success_count, error_count, papers_metadata, loaded, papers, scrape>>

\* self.processed_count += 1 reads the attribute ...
LoadProcessed(t) ==
    /\ task[t].at = "load_processed"
    /\ loaded' = [loaded EXCEPT ![t] = processed_count]
    /\ task' = [task EXCEPT ![t].at = "store_processed"]
    /\ UNCHANGED <<simVars, cacheVars, observerVars, max_workers, lock, processed_count,
                   success_count, error_count, papers_metadata, papers, scrape>>

\* ... and stores the value read, plus one.
StoreProcessed(t) ==
    /\ task[t].at = "store_processed"
    /\ processed_count' = loaded[t] + 1
    /\ task' = [task EXCEPT ![t].at = "load_outcome"]
    /\ UNCHANGED <<simVars, cacheVars, observerVars, max_workers, lock, success_count,
                   error_count, papers_metadata, loaded, papers, scrape>>

\* self.success_count += 1 after the Paper was built, self.error_count += 1 in
\* the except clause: the read ...
LoadOutcome(t) ==
    /\ task[t].at = "load_outcome"
    /\ loaded' = [loaded EXCEPT ![t] = IF task[t].built THEN success_count ELSE error_count]
    /\ task' = [task EXCEPT ![t].at = "store_outcome"]
    /\ UNCHANGED <<simVars, cacheVars, observerVars, max_workers, lock, processed_count,
                   success_count, error_count, papers_metadata, papers, scrape>>

\* ... and the store, after which the with block ends, the lock is released
\* and the call returns the Paper or None.
StoreOutcome(t) ==
    /\ task[t].at = "store_outcome"
    /\ IF task[t].built
          THEN success_count' = loaded[t] + 1 /\ UNCHANGED error_count
          ELSE error_count' = loaded[t] + 1 /\ UNCHANGED success_count
    /\ lock' = Free
    /\ loaded' = [loaded EXCEPT ![t] = 0]
    /\ task' = [task EXCEPT ![t].at = "done"]
    /\ UNCHANGED <<simVars, cacheVars, observerVars, max_workers, processed_count,
                   papers_metadata, papers, scrape>>

\* as_completed yields a finished future; future.result() is the Paper, which
\* is appended, or None.  The progress line only reads the counters.  No
\* future holds an Exception, since process_paper_parallel catches them all
\* and its except clause raises none, so the loop's except clause never runs.
Collect(t) ==
    /\ scrape = "collect"
    /\ task[t].at = "done"
    /\ papers' = IF task[t].built THEN Append(papers, t) ELSE papers
    /\ task' = [task EXCEPT ![t].at = "collected"]
    /\ UNCHANGED <<simVars, cacheVars, observerVars, max_workers, lock, processed_count,
                   success_count, error_count, papers_metadata, loaded, scrape>>

\* Every future was yielded: the executor shuts down and papers is returned.
ReturnPapers ==
    /\ scrape = "collect"
    /\ \A t \in 1..papers_metadata : task[t].at = "collected"
    /\ scrape' = "returned"
    /\ UNCHANGED <<simVars, cacheVars, observerVars, max_workers, lock, processed_count,
                   success_count, error_count, papers_metadata, task, loaded, papers>>

ScraperInit ==
    /\ paperIndex = <<>>
    /\ embFile = [id \in PaperIds |-> NoVec]
    /\ paperFile = {}
    /\ subjectAreas = RecordAreas
    /\ papersCache = {}
    /\ embeddingsCache = <<>>
    /\ indexLoaded = FALSE
    /\ allEmbeddings = NotLoaded
    /\ response = Idle
    /\ lastGraph = Idle
    /\ CacheVarsInit
    /\ \E workers \in 1..MaxPoolWorkers : MICCAIParallelScraper(workers)

ScraperNext ==
    \/ \E n \in 0..MaxPapers : ExtractAllPapersMetadata(n)
    \/ \E t \in Tasks : Submit(t)
    \/ \E t \in Tasks : StartTask(t)
    \/ \E t \in Tasks, built \in BOOLEAN : TryBlock(t, built)
    \/ \E t \in Tasks : Acquire(t)
    \/ \E t \in Tasks : LoadProcessed(t)
    \/ \E t \in Tasks : StoreProcessed(t)
    \/ \E t \in Tasks : LoadOutcome(t)
    \/ \E t \in Tasks : StoreOutcome(t)
    \/ \E t \in Tasks : Collect(t)
    \/ ReturnPapers

SpecScraper == ScraperInit /\ [][ScraperNext]_vars

---------------------------------------------------------------------------
(* Properties of the similarity engine, checked under SpecSim *)

\* The ids that have a stored embedding, as the store enumerates them.
StoreIds == SelectIn(paperIndex, {id \in PaperIds : embFile[id] # NoVec})

\* The cosine of two ids' stored vectors.
StoredScore(a, b) == CosineSimilarity(embFile[a], embFile[b])

GraphReturned == response.op = "graph" /\ response.value.error = "none"
SimilarReturned == response.op = "similar"
ClustersReturned == response.op = "clusters" /\ response.error = "none"

EdgePair(e) == {e.source, e.target}

\* The score of an unordered pair of ids.
PairScore(pr) ==
    LET a == CHOOSE x \in pr : TRUE
        b == CHOOSE y \in pr : y # a
    IN  StoredScore(a, b)

\* The unordered pairs of selected ids whose score passes the threshold.
QualifyingPairs(paper_ids, threshold) ==
    {pr \in {{a, b} : a, b \in Range(paper_ids)} :
        Cardinality(pr) = 2 /\ PairScore(pr) > threshold}

\* The whole scenario corpus is stored, indexed and has its paper records.
ScenarioStore ==
    /\ embFile = ScenarioCorpus
    /\ Range(paperIndex) = PaperIds
    /\ paperFile = PaperIds

\* C3: the graph returned by generate_graph_data has no edge from an id to
\* itself, no two edges for the same unordered pair of ids, and at most
\* max_edges edges.
C3_EdgesWellFormed ==
    GraphReturned =>
        LET e == response.value.edges
        IN  /\ \A i \in DOMAIN e : e[i].source # e[i].target
            /\ \A i, j \in DOMAIN e : i # j => EdgePair(e[i]) # EdgePair(e[j])
            /\ Len(e) <= response.max_edges

\* A graph whose edge list was cut to max_edges (more pairs qualified).
C3_Witness ==
    /\ GraphReturned
    /\ Len(response.value.edges) = response.max_edges
    /\ Cardinality(QualifyingPairs(response.paper_ids, response.threshold))
          > response.max_edges

\* C4: the edges returned are the max_edges highest-scoring pairs among all
\* selected pairs that pass the threshold (all of them when fewer qualify), each
\* with its score, in descending score order; no pair left out scores higher
\* than a pair kept.  On the scenario corpus, threshold 0.35 and max_edges 2
\* give exactly (A,B,0.9) then (A,C,0.5).
C4_TopEdgesGlobally ==
    GraphReturned =>
        LET e == response.value.edges
            q == QualifyingPairs(response.paper_ids, response.threshold)
            kept == {EdgePair(e[i]) : i \in DOMAIN e}
        IN  /\ kept \subseteq q
            /\ \A i \in DOMAIN e : e[i].similarity = PairScore(EdgePair(e[i]))
            /\ Len(e) = Min(response.max_edges, Cardinality(q))
            /\ \A i, j \in DOMAIN e : i < j => e[i].similarity >= e[j].similarity
            /\ \A pr \in q \ kept : \A i \in DOMAIN e : PairScore(pr) <= e[i].similarity
            /\ ( /\ ScenarioStore
                 /\ Range(response.paper_ids) = PaperIds
                 /\ response.threshold = 35
                 /\ response.max_edges = 2 )
               => /\ Len(e) = 2
                  /\ EdgePair(e[1]) = {"A", "B"} /\ e[1].similarity = 90
                  /\ EdgePair(e[2]) = {"A", "C"} /\ e[2].similarity = 50

\* The scenario's call: three pairs qualify (0.9, 0.5, 0.4) and two are returned.
C4_Witness ==
    /\ GraphReturned
    /\ ScenarioStore
    /\ Range(response.paper_ids) = PaperIds
    /\ response.threshold = 35
    /\ response.max_edges = 2
    /\ Len(response.value.edges) = 2

\* No two distinct selected ids hold identical vectors.
NoIdenticalVectors(paper_ids) ==
    \A a, b \in Range(paper_ids) : a # b => embFile[a] # embFile[b]

\* C5: every returned edge scores strictly above the threshold; with threshold
\* 1.0 and no two identical vectors among the selected ids there is no edge.
C5_StrictThreshold ==
    GraphReturned =>
        LET e == response.value.edges
        IN  /\ \A i \in DOMAIN e : e[i].similarity > response.threshold
            /\ (response.threshold = ScoreScale /\ NoIdenticalVectors(response.paper_ids))
                  => e = <<>>

\* Threshold 1.0 over two distinct parallel vectors, whose score equals the
\* threshold: no edge.
C5_Witness ==
    /\ GraphReturned
    /\ response.threshold = ScoreScale
    /\ NoIdenticalVectors(response.paper_ids)
    /\ \E a, b \in Range(response.paper_ids) : a # b /\ StoredScore(a, b) = ScoreScale
    /\ response.value.edges = <<>>

\* How often id occurs in the member lists of the clusters.
Occurrences(clusters, id) ==
    Cardinality({ci \in UNION {{<<c, i>> : i \in DOMAIN clusters[c]} : c \in DOMAIN clusters} :
                    clusters[ci[1]][ci[2]] = id})

\* C6: for a non-empty id set and 1 <= k <= len(ids), get_paper_clusters returns,
\* and its clusters partition the ids: the union of the members is the id set and
\* each id is in exactly one cluster.
C6_ExactPartition ==
    ( /\ response.op = "clusters"
      /\ StoreIds # <<>>
      /\ response.n_clusters \in 1..Len(StoreIds) )
    => /\ response.error = "none"
       /\ UNION {Range(response.value[c]) : c \in DOMAIN response.value} = Range(StoreIds)
       /\ \A id \in Range(StoreIds) : Occurrences(response.value, id) = 1

\* Four ids split into two clusters that both have members.
C6_Witness ==
    /\ ClustersReturned
    /\ Len(StoreIds) > 2
    /\ response.n_clusters = 2
    /\ Cardinality(DOMAIN response.value) = 2

\* C7: get_paper_clusters works with min(k, count(ids)) clusters: for k >= 1 it
\* returns, with at most min(k, count(ids)) clusters; with no ids it returns the
\* empty mapping and no error, for any k.
C7_EffectiveK ==
    response.op = "clusters" =>
        /\ response.n_clusters >= 1 => response.error = "none"
        /\ response.error = "none" =>
              Cardinality(DOMAIN response.value)
                 <= Min(response.n_clusters, Len(StoreIds))
        /\ StoreIds = <<>> => (response.error = "none" /\ response.value = <<>>)

\* More clusters asked than there are ids.
C7_Witness ==
    /\ ClustersReturned
    /\ StoreIds # <<>>
    /\ response.n_clusters > Len(StoreIds)
    /\ Cardinality(DOMAIN response.value) = Len(StoreIds)

ReturnedIds == {response.value[i].id : i \in DOMAIN response.value}

\* C8: find_similar_papers never returns the target id and returns at most
\* `limit` entries.
C8_NoSelfAtMostK ==
    SimilarReturned =>
        /\ response.paper_id \notin ReturnedIds
        /\ Len(response.value) <= response.limit

\* A target that is itself in the store, with more candidates than the limit.
C8_Witness ==
    /\ SimilarReturned
    /\ response.paper_id \in Range(StoreIds)
    /\ Len(StoreIds) > response.limit + 1
    /\ Len(response.value) = response.limit

\* The position of id in the order the store enumerates its ids.
StorePosition(id) == CHOOSE i \in DOMAIN StoreIds : StoreIds[i] = id

SortedByScoreDesc(v) == \A i, j \in DOMAIN v : i < j => v[i].score >= v[j].score

\* C9 as claimed: the list is sorted descending by score and entries of equal
\* score are in ascending id order, whatever order the store enumerates.
C9_TiesByAscendingId ==
    SimilarReturned =>
        /\ SortedByScoreDesc(response.value)
        /\ \A i, j \in DOMAIN response.value :
              (i < j /\ response.value[i].score = response.value[j].score)
                 => IdRank(response.value[i].id) < IdRank(response.value[j].id)

\* C9 as the code has it: the list is sorted descending by score and entries of
\* equal score keep the order in which the store enumerates their ids.
C9_TiesInStoreOrder ==
    SimilarReturned =>
        /\ SortedByScoreDesc(response.value)
        /\ \A i, j \in DOMAIN response.value :
              (i < j /\ response.value[i].score = response.value[j].score)
                 => StorePosition(response.value[i].id) < StorePosition(response.value[j].id)

\* Two entries of equal score returned with the larger id first.
C9_Witness ==
    /\ SimilarReturned
    /\ \E i, j \in DOMAIN response.value :
          /\ i < j
          /\ response.value[i].score = response.value[j].score
          /\ IdRank(response.value[i].id) > IdRank(response.value[j].id)

\* C10 as claimed: every returned entry scores at least minScore; on the scenario
\* corpus topK(A, k=2, minScore=0.2) is [(B,0.9), (C,0.5)], and with k=3 no entry
\* scores below 0.2, so D (0.1) is not returned.  (find_similar_papers takes no
\* minimum score: the call is find_similar_papers("A", k).)
C10_MinScore ==
    SimilarReturned =>
        /\ (ScenarioStore /\ response.paper_id = "A" /\ response.limit = 2)
              => response.value = <<[id |-> "B", score |-> 90], [id |-> "C", score |-> 50]>>
        /\ (ScenarioStore /\ response.paper_id = "A" /\ response.limit = 3)
              => /\ "D" \notin ReturnedIds
                 /\ \A i \in DOMAIN response.value : response.value[i].score >= 20

\* C11: find_similar_papers returns the empty list, and does not raise, whenever
\* the target id has no stored embedding, be the id indexed or unknown to the store.
C11_NoEmbeddingGivesEmpty ==
    (SimilarReturned /\ embFile[response.paper_id] = NoVec)
        => response.value = <<>>

\* A target without an embedding file asked of a store that holds other vectors.
C11_Witness ==
    /\ SimilarReturned
    /\ embFile[response.paper_id] = NoVec
    /\ response.value = <<>>
    /\ Len(StoreIds) >= 2

NodeIds == {response.value.nodes[i].id : i \in DOMAIN response.value.nodes}

\* C15: the nodes of the returned graph are the candidate ids (filtered, then
\* sampled) exactly: one node per candidate id, with or without a surviving edge,
\* and no node for any other id.
C15_NodesAreCandidates ==
    GraphReturned =>
        /\ NodeIds = Range(response.paper_ids)
        /\ Len(response.value.nodes) = Len(response.paper_ids)

\* C16: with fewer than two candidates (none or one) generate_graph_data does
\* not raise and returns its nodes with an empty edge list.
C16_FewCandidatesNoError ==
    (response.op = "graph" /\ Len(response.paper_ids) < 2)
        => /\ response.value.error = "none"
           /\ response.value.edges = <<>>

\* The position of id in the candidate list of the returned graph.
CandidatePosition(id) ==
    CHOOSE i \in DOMAIN response.paper_ids : response.paper_ids[i] = id

\* C17 as claimed: every returned edge has a source id that is lexicographically
\* smaller than its target id.
C17_SourceBelowTarget ==
    GraphReturned =>
        \A i \in DOMAIN response.value.edges :
            IdRank(response.value.edges[i].source) < IdRank(response.value.edges[i].target)

\* C17 as the code has it: every returned edge has its source before its target
\* in the candidate list (the store's enumeration order, or the sample's order).
C17_SourceBeforeTarget ==
    GraphReturned =>
        \A i \in DOMAIN response.value.edges :
            CandidatePosition(response.value.edges[i].source)
               < CandidatePosition(response.value.edges[i].target)

\* An edge returned with the lexicographically larger id as its source.
C17_Witness ==
    /\ GraphReturned
    /\ \E i \in DOMAIN response.value.edges :
          IdRank(response.value.edges[i].source) > IdRank(response.value.edges[i].target)

\* The stored ids whose paper record has a subject area of the filter.
Matching(subject_areas) ==
    {id \in Range(StoreIds) : id \in paperFile /\ subjectAreas[id] \cap subject_areas # {}}

EdgeEndpoints ==
    UNION {EdgePair(response.value.edges[i]) : i \in DOMAIN response.value.edges}

\* C18: with a subject-area filter, the candidates are filtered before they are
\* sampled and before similarities are computed: the sample is drawn among the
\* matching ids only (and has the requested size whenever more ids match), and
\* every node and every endpoint of every edge is a paper with an area of the
\* filter.
C18_FilterFirst ==
    (GraphReturned /\ response.subject_areas # {}) =>
        LET match == Matching(response.subject_areas)
        IN  /\ Range(response.paper_ids) \subseteq match
            /\ Len(response.paper_ids) =
                  IF response.sample_size # 0 /\ response.sample_size < Cardinality(match)
                  THEN response.sample_size ELSE Cardinality(match)
            /\ NodeIds \subseteq match
            /\ EdgeEndpoints \subseteq match

\* A filtered graph with an edge, over a store that also holds a pair of
\* non-matching ids scoring above the threshold.
C18_Witness ==
    /\ GraphReturned
    /\ response.subject_areas # {}
    /\ response.value.edges # <<>>
    /\ \E a, b \in Range(StoreIds) \ Matching(response.subject_areas) :
          a # b /\ StoredScore(a, b) > response.threshold

\* The candidates of a query for paper_id: the other stored ids.
Candidates(paper_id) == Range(StoreIds) \ {paper_id}

\* The place of candidate id in the ranking of paper_id's candidates: by
\* descending score, equal scores in store order.
RankingPlace(paper_id, id) ==
    1 + Cardinality({other \in Candidates(paper_id) :
            \/ StoredScore(paper_id, other) > StoredScore(paper_id, id)
            \/ /\ StoredScore(paper_id, other) = StoredScore(paper_id, id)
               /\ StorePosition(other) < StorePosition(id)})

\* C28: find_similar_papers cuts the ranking to `limit` and then drops the
\* candidates without a paper record: it returns, in ranking order, exactly the
\* candidates ranked in the first `limit` places that have a record, and never
\* a candidate ranked beyond place `limit`.
C28_TruncateThenFilter ==
    (SimilarReturned /\ embFile[response.paper_id] # NoVec) =>
        LET v == response.value
            place(i) == RankingPlace(response.paper_id, v[i].id)
        IN  /\ ReturnedIds = {id \in Candidates(response.paper_id) :
                                 /\ RankingPlace(response.paper_id, id) <= response.limit
                                 /\ id \in paperFile}
            /\ \A i, j \in DOMAIN v : i < j => place(i) < place(j)
            /\ \A i \in DOMAIN v : place(i) <= response.limit

\* Fewer than `limit` entries came back although at least `limit` candidates
\* have a paper record: one of the first `limit` ranked had none.
C28_Witness ==
    /\ SimilarReturned
    /\ embFile[response.paper_id] # NoVec
    /\ Len(response.value) < response.limit
    /\ Cardinality(Candidates(response.paper_id) \cap paperFile) >= response.limit

---------------------------------------------------------------------------
(* Properties of repeated requests, checked under SpecRepeat *)

\* The graph request answered now has the parameters of the one answered last.
SameGraphRequest ==
    /\ response.op = "graph"
    /\ lastGraph.op = "graph"
    /\ response.threshold = lastGraph.threshold
    /\ response.max_edges = lastGraph.max_edges
    /\ response.sample_size = lastGraph.sample_size
    /\ response.subject_areas = lastGraph.subject_areas

\* C19: two runs of the same operation with the same parameters over the same
\* store return identical results, whatever was served in between: a graph
\* request repeated with the same threshold, max_edges, sample_size and filter
\* gets the graph it got before.
C19_SameRequestSameGraph ==
    SameGraphRequest => response.value = lastGraph.value

---------------------------------------------------------------------------
(* Properties of the single-document queries, checked under SpecApi *)

ApiReturned == response.op \in {"api_similar", "api_network"}

\* C12: a single-document query whose target has no paper record is answered
\* with an explicit NotFound, never with a successful empty or partial result.
C12_MissingTargetNotFound ==
    (ApiReturned /\ response.paper_id \notin paperFile)
        => response.status = HttpNotFound

---------------------------------------------------------------------------
(* Properties of the embedding lookups, checked under SpecLoader *)

\* C13: once get_embedding_by_id has returned a vector for an id, the vector is
\* in the cache; no step evicts or replaces a cached entry; and a get for a
\* cached id returns the cached vector without going to storage, whatever has
\* become of the file.
C13_CachedForGood ==
    [][ /\ \A id \in DOMAIN embeddingsCache :
              /\ id \in DOMAIN embeddingsCache'
              /\ embeddingsCache'[id] = embeddingsCache[id]
        /\ (response = Idle /\ response'.op = "get") =>
              /\ (response'.error = "none" /\ response'.value # NoVec)
                    => /\ response'.id \in DOMAIN embeddingsCache'
                       /\ embeddingsCache'[response'.id] = response'.value
              /\ response'.id \in DOMAIN embeddingsCache
                    => /\ response'.error = "none"
                       /\ response'.value = embeddingsCache[response'.id]
                       /\ ~response'.read
      ]_vars

\* A get served from the cache after the file was replaced, removed or damaged.
C13_Witness ==
    /\ response.op = "get"
    /\ ~response.read
    /\ response.value # NoVec
    /\ embFile[response.id] # response.value

\* The indexed ids for which a vector can be had: cached, or in a readable file.
IdsWithReadableVector ==
    {id \in Range(paperIndex) :
        id \in DOMAIN embeddingsCache \/ embFile[id] \notin {NoVec, Unreadable}}

\* C14: get_all_embeddings never aborts because of one id: it returns, without
\* the ids that have no vector or whose read fails and with every other indexed id.
C14_GetAllNeverAborts ==
    response.op = "getall" =>
        /\ response.error = "none"
        /\ Range(response.keys) = IdsWithReadableVector

---------------------------------------------------------------------------
(* Properties of the result cache *)

\* The call of worker w has returned.
CallDone(w) == pc[w] = "done"

\* The call of worker w began with an entry stored under its key.
BeganWithEntry(w) == atStart[w] # NoData

\* C1: a call whose key had a stored entry when it began, left by a completed
\* earlier call, returns a payload equal to that entry and does not invoke the
\* compute function of its key (_generate_similarity_network_data for
\* network_<paperId>_<topK>, _generate_tsne_coordinates for the t-SNE entry).
C1_HitReturnsStored ==
    \A w \in Workers :
        (CallDone(w) /\ BeganWithEntry(w))
            => /\ ret[w] = atStart[w]
               /\ req[w].file \notin computed[w]

\* A second call for a network key returned the payload the first call stored.
C1_Witness ==
    \E w \in Workers :
        /\ CallDone(w) /\ BeganWithEntry(w)
        /\ calls = 2
        /\ req[w].op = "network"
        /\ ret[w].kind = "network"
        /\ ret[w] = cacheFiles[req[w].file].data

\* The call of worker w is in progress: it has started and not yet returned.
InProgress(w) == pc[w] \notin {"idle", "done"}

\* C2: whatever the interleaving of concurrent callers, the compute function of
\* a cache key is not invoked by two of them: no two calls in progress at the
\* same time have both invoked it.
C2_AtMostOneCompute ==
    \A v, w \in Workers :
        (v # w /\ InProgress(v) /\ InProgress(w))
            => computed[v] \cap computed[w] = {}

\* The ids of the entries of a projection.
EntryIds(projection) == Range(projection.ids)

\* C20: the projection get_tsne_coordinates computes or loads holds exactly one
\* entry per paper of the store, none missing and none twice, on the t-SNE path
\* and on the fallback path alike.  (Each entry carries the two floats that
\* TSNE.fit_transform or np.random.normal produced.)
C20_OneEntryPerPaper ==
    \A w \in Workers :
        tsneMem[w] # NoData =>
            /\ EntryIds(tsneMem[w]) = Range(AllPapers)
            /\ Len(tsneMem[w].ids) = Cardinality(Range(AllPapers))

\* A value one of the compute functions returns.
IsPayload(v) == v.kind \in {"tsne", "fallback", "network", "fallback_network"}

\* The value the compute function of the call's key produces for worker w.
FreshValues(w) ==
    IF req[w].op = "tsne" THEN {tsneMem[w]}
    ELSE {GenerateNetworkData(req[w].paper_id, req[w].top_k, tsneMem[w], draw) :
            draw \in Draws}

\* C21: a call during which reading or writing a cache entry failed still
\* returns a payload: every entry whose read failed was recomputed, and when the
\* read or the write of the call's own entry failed the caller gets the freshly
\* computed value.
C21_CacheFailureTolerated ==
    \A w \in Workers :
        (CallDone(w) /\ logged[w] # {}) =>
            /\ IsPayload(ret[w])
            /\ \A name \in FileNames : LoadError(name) \in logged[w] => name \in computed[w]
            /\ (logged[w] \cap {LoadError(req[w].file), SaveError(req[w].file)} # {})
                  => /\ req[w].file \in computed[w]
                     /\ ret[w] \in FreshValues(w)

\* A network call found its entry unreadable, recomputed it, failed to write it
\* back and returned the network it computed.
C21_Witness ==
    \E w \in Workers :
        /\ CallDone(w)
        /\ req[w].op = "network"
        /\ {LoadError(req[w].file), SaveError(req[w].file)} \subseteq logged[w]
        /\ ret[w].kind = "network"

\* C22: whether calls finish or are abandoned, whenever no request is being
\* served every cache file is absent or holds one complete payload.
C22_NoPartialEntry ==
    (\A v \in Workers : pc[v] = "idle")
        => \A name \in FileNames : cacheFiles[name].state # "partial"

\* C26: get_similarity_network_data raises for no paper id and no top_k: when
\* generation fails, the target paper being missing included, the caller gets
\* the fallback network payload.
C26_NetworkNeverRaises ==
    \A w \in Workers :
        (CallDone(w) /\ req[w].op = "network") =>
            /\ ret[w] # Raised
            /\ ret[w].kind \in {"network", "fallback_network"}

\* A result of a failed generation: random coordinates or fallback network data.
IsFallback(v) == v.kind \in {"fallback", "fallback_network"}

\* C27: a fallback result is cached like any other: the call that computed it
\* and saved it without error leaves it in the file of its key, and a later call
\* that finds it stored returns that same payload and computes nothing.
C27_FallbackPersisted ==
    \A w \in Workers :
        CallDone(w) =>
            /\ (/\ req[w].file \in computed[w]
                /\ IsFallback(ret[w])
                /\ SaveError(req[w].file) \notin logged[w])
                  => cacheFiles[req[w].file] = [state |-> "complete", data |-> ret[w]]
            /\ (BeganWithEntry(w) /\ IsFallback(atStart[w]))
                  => /\ ret[w] = atStart[w]
                     /\ computed[w] = {}

\* A second network call was served the fallback network data that the first
\* call had computed and stored.
C27_Witness ==
    \E w \in Workers :
        /\ CallDone(w) /\ BeganWithEntry(w)
        /\ req[w].op = "network"
        /\ ret[w].kind = "fallback_network"
        /\ ret[w] = cacheFiles[req[w].file].data
        /\ computed[w] = {}

\* C29: once a TSNEService instance holds coordinates in memory (every return
\* of get_tsne_coordinates leaves them there), they never change, and every
\* later call of get_tsne_coordinates on it returns them at its first test:
\* whatever has become of the cache file, the call neither reads nor rewrites
\* it and generates nothing.
C29_MemoryTakesPrecedence ==
    [][\A w \in Workers :
          tsneMem[w] # NoData =>
             /\ tsneMem'[w] = tsneMem[w]
             /\ (pc[w] = "t_check" /\ pc'[w] # "t_check") =>
                   /\ pc'[w] = "done"
                   /\ ret'[w] = tsneMem[w]
                   /\ cacheFiles' = cacheFiles
                   /\ computed'[w] = computed[w]
                   /\ logged'[w] = logged[w]]_vars

\* A second call returned the coordinates held in memory after the cache file
\* had been deleted, and left the file deleted.
C29_Witness ==
    \E w \in Workers :
        /\ CallDone(w)
        /\ req[w].op = "tsne"
        /\ calls = 2
        /\ computed[w] = {}
        /\ ret[w] = tsneMem[w]
        /\ IsPayload(ret[w])
        /\ cacheFiles[TsneFileName] = AbsentFile

---------------------------------------------------------------------------
(* Properties of the query constraints, checked under SpecQuery *)

\* The caches of DataLoader, SimilarityService and TSNEService.
AllCaches == <<papersCache, embeddingsCache, indexLoaded, allEmbeddings,
               cacheFiles, tsneMem>>

\* C23: a request is answered by a computation only when its parameters are
\* valid (threshold within [0, 1], positive k, positive max_edges); any other
\* request is answered with the validation error, and answering it loads no
\* embedding and changes no cache.
C23_InvalidRejectedFirst ==
    [][(response = Idle /\ response' # Idle) =>
          /\ response'.op = "graph" =>
                /\ 0 <= response'.threshold /\ response'.threshold <= ScoreScale
                /\ response'.max_edges > 0
          /\ response'.op = "api_similar" => response'.limit > 0
          /\ response'.op = "clusters" => response'.n_clusters > 0
          /\ response'.op = "rejected" =>
                /\ response'.status = HttpUnprocessable
                /\ UNCHANGED AllCaches]_vars

\* A graph request with a threshold above 1 was rejected before the embeddings
\* were ever loaded.
C23_Witness ==
    /\ response # Idle
    /\ response.op = "rejected"
    /\ response.handler = "graph"
    /\ response.args[1] > ScoreScale
    /\ allEmbeddings = NotLoaded

---------------------------------------------------------------------------
(* Properties of the text search, checked under SpecSearch *)

\* C24: search_papers called with the empty query string returns an empty
\* list, whatever the corpus and the limit.
C24_EmptyQueryEmptyResult ==
    (response # Idle /\ response.op = "search" /\ response.query = <<>>)
        => response.value = <<>>

---------------------------------------------------------------------------
(* Properties of the clustered graph, checked under SpecClustered *)

\* A graph was returned with its clusters.
ClusteredGraphReturned ==
    /\ response # Idle
    /\ response.op = "graph"
    /\ response.value.error = "none"
    /\ response.value.clusters # <<>>

\* C25: in the graph generate_graph_data returns, every node that carries a
\* cluster value c has its id among the papers of cluster c, and the clusters'
\* paper lists partition the selected ids, also when ids with an embedding have
\* no paper record.
C25_NodesAgreeWithClusters ==
    ClusteredGraphReturned =>
        LET nodes == response.value.nodes
            clusters == response.value.clusters
        IN  /\ \A i \in DOMAIN nodes :
                  nodes[i].cluster \in DOMAIN clusters
                      => nodes[i].id \in Range(clusters[nodes[i].cluster])
            /\ \A id \in Range(response.paper_ids) :
                  Cardinality({c \in DOMAIN clusters : id \in Range(clusters[c])}) = 1
            /\ \A c \in DOMAIN clusters :
                  /\ Range(clusters[c]) \subseteq Range(response.paper_ids)
                  /\ Len(clusters[c]) = Cardinality(Range(clusters[c]))

---------------------------------------------------------------------------
(* Properties of the parallel scrape, checked under SpecScraper *)

\* C30: when scrape_all_papers_parallel returns on a fresh scraper, whatever
\* the number of pool threads and however their steps interleave,
\* processed_count is the number of papers submitted, success_count plus
\* error_count is processed_count, and as many papers are returned as
\* success_count says.
C30_CountersAgree ==
    scrape = "returned" =>
        /\ processed_count = papers_metadata
        /\ success_count + error_count = processed_count
        /\ Len(papers) = success_count

C30_Witness ==
    /\ scrape = "returned"
    /\ max_workers > 1
    /\ papers_metadata > 1
    /\ success_count > 0
    /\ error_count > 0
    /\ Len(papers) = success_count

====
